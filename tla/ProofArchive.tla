---------------------------- MODULE ProofArchive ----------------------------
(***************************************************************************)
(* The archive of legacy proof artifacts                                    *)
(* (src/continuum/core/proof_archive.py): apply_legacy_catalog_archive      *)
(* copies full-catalog snapshots that a proof binds to an external,         *)
(* content-addressed store, records the relocation in a chained ledger and  *)
(* removes the source; restore_relocated_proof brings one back.  Both hold  *)
(* an operation lock (one call at a time) and die anywhere.  The owner of   *)
(* an operation, or a user, puts files under the same names meanwhile.      *)
(*                                                                         *)
(* Abstractions.  A content stands for its digest and size; the identity of *)
(* a file (device, inode, times) is a number, in the order of mtime.        *)
(* Temporary copies, links instead of files and malformed ledgers are left  *)
(* out; an append is whole.                                                 *)
(***************************************************************************)
EXTENDS Integers, Sequences, FiniteSets, FiniteSetsExt

CONSTANTS Uris,      \* exports/proof_artifacts/<operation>/<catalog snapshot>
          Contents,  \* what such a file may hold
          MaxFiles   \* bound: files that ever come to be under these names

VARIABLES
    windows, linked,  \* the platform deletes by handle; the file system has hard links
    file,             \* the file under each name
    aside,            \* files in the source quarantines
    object,           \* the objects of the archive
    bound,            \* manifest of the archive and locator of the root
    ledger,           \* relocation records
    refs, owed,       \* what proofs bind to the names; what nobody else replaced
    made, call

vars == <<windows, linked, file, aside, object, bound, ledger, refs, owed, made, call>>

NoFile == [content |-> "none", id |-> 0]
NoItem == [uri |-> "none", content |-> "none", id |-> 0]
Idle == [pc |-> "idle", keep |-> 0, items |-> {}, item |-> NoItem, seen |-> 0]

Init ==
    /\ windows \in BOOLEAN /\ linked \in BOOLEAN
    /\ file = [u \in Uris |-> NoFile] /\ aside = {} /\ made = 0
    /\ object = [c \in Contents |-> "none"]
    /\ bound = "none" /\ ledger = <<>> /\ refs = {} /\ owed = {} /\ call = Idle

In(pc) == call.pc = pc
Goto(pc) == call' = [call EXCEPT !.pc = pc]
Return == call' = Idle
This == call.item
Quiet == UNCHANGED <<windows, linked, refs, owed>>

----------------------------------------------------------------------------
\* Files and references that others make.

Reserved(u) == file[u].content = "empty"

Write(u, c) ==
    /\ made < MaxFiles /\ ~(In("refill") /\ This.uri = u)
    /\ made' = made + 1
    /\ file' = [file EXCEPT ![u] = [content |-> c, id |-> made']]
    /\ owed' = owed \ {<<u, file[u].content>>}
    /\ UNCHANGED <<windows, linked, aside, object, bound, ledger, refs, call>>

\* record_artifact, write_proof_pack: a proof binds the bytes under a name.
Register(u) ==
    /\ file[u].content \in Contents
    /\ refs' = refs \cup {<<u, file[u].content>>}
    /\ owed' = owed \cup {<<u, file[u].content>>}
    /\ UNCHANGED <<windows, linked, file, aside, object, bound, ledger, made, call>>

----------------------------------------------------------------------------
\* The ledger.

Archived(u) == {ledger[i].content : i \in {k \in DOMAIN ledger : ledger[k].action = "archived" /\ ledger[k].uri = u}}

\* _append_relocation_record: chained to what the call has read.
Append1(action) ==
    /\ ledger' = Append(ledger, [action |-> action, uri |-> This.uri, content |-> This.content,
                                 previous |-> call.seen])

----------------------------------------------------------------------------
\* apply_legacy_catalog_archive

Begin(keep) ==
    /\ In("idle") /\ call' = [Idle EXCEPT !.pc = "manifest", !.keep = keep]
    /\ UNCHANGED <<file, aside, object, bound, ledger, made>> /\ Quiet

\* _ensure_archive: a manifest is written beside its name, then renamed; an archive
\* with anything else in it and no manifest is refused.
Manifest ==
    /\ In("manifest")
    /\ CASE bound = "none" -> bound' = "temporary" /\ Goto("name")
         [] bound = "temporary" -> bound' = bound /\ Return
         [] OTHER -> bound' = bound /\ Goto("locator")
    /\ UNCHANGED <<file, aside, object, ledger, made>> /\ Quiet

Name ==
    /\ In("name") /\ bound' = "manifest" /\ Goto("locator")
    /\ UNCHANGED <<file, aside, object, ledger, made>> /\ Quiet

Locator ==
    /\ In("locator") /\ bound' = "located" /\ Goto("plan")
    /\ UNCHANGED <<file, aside, object, ledger, made>> /\ Quiet

Bound(u) == {r[2] : r \in {s \in refs : s[1] = u}}

\* plan_legacy_catalog_archive: files that are what all their references say, without
\* the newest ones.
Candidates ==
    {[uri |-> u, content |-> file[u].content, id |-> file[u].id] :
        u \in {v \in Uris : file[v].content \in Contents /\ Bound(v) = {file[v].content}}}
Older(items, n) == {i \in items : Cardinality({k \in items : k.id > i.id}) >= n}

Plan ==
    /\ In("plan")
    /\ call' = [call EXCEPT !.pc = "item", !.items = Older(Candidates, call.keep), !.seen = Len(ledger)]
    /\ UNCHANGED <<file, aside, object, bound, ledger, made>> /\ Quiet

Newest == CHOOSE i \in call.items : \A k \in call.items : k.id <= i.id

\* _archive_one: a name that has been relocated before keeps its identity.
Take ==
    /\ In("item")
    /\ IF call.items = {} THEN Return
       ELSE IF Archived(Newest.uri) \ {Newest.content} # {} THEN Return
       ELSE call' = [call EXCEPT !.item = Newest, !.items = @ \ {Newest},
                                 !.pc = IF Archived(Newest.uri) = {} THEN "copy" ELSE "verify"]
    /\ UNCHANGED <<file, aside, object, bound, ledger, made>> /\ Quiet

\* _copy_verified_file: linked under its final name, or the name is reserved by an
\* empty file that the copy replaces.
CopyObject ==
    /\ In("copy")
    /\ CASE object[This.content] = "whole" -> Goto("record") /\ object' = object
         [] object[This.content] = "none" /\ file[This.uri].content = This.content ->
               /\ object' = [object EXCEPT ![This.content] = IF linked THEN "whole" ELSE "reserved"]
               /\ Goto(IF linked THEN "record" ELSE "fill")
         [] OTHER -> Return /\ object' = object
    /\ UNCHANGED <<file, aside, bound, ledger, made>> /\ Quiet

Fill ==
    /\ In("fill") /\ object' = [object EXCEPT ![This.content] = "whole"] /\ Goto("record")
    /\ UNCHANGED <<file, aside, bound, ledger, made>> /\ Quiet

Record ==
    /\ In("record") /\ Append1("archived")
    /\ call' = [call EXCEPT !.pc = "verify", !.seen = @ + 1]
    /\ UNCHANGED <<file, aside, object, bound, made>> /\ Quiet

Planned(f) == f = [content |-> This.content, id |-> This.id]

\* _remove_verified_source: only the planned file goes, and only where it can be
\* deleted by handle.
Verify ==
    /\ In("verify")
    /\ Goto(IF object[This.content] = "whole" /\ Planned(file[This.uri]) /\ windows THEN "park" ELSE "item")
    /\ UNCHANGED <<file, aside, object, bound, ledger, made>> /\ Quiet

Park ==
    /\ In("park")
    /\ IF file[This.uri] = NoFile THEN Goto("item") /\ UNCHANGED <<file, aside>>
       ELSE /\ aside' = aside \cup {[uri |-> This.uri, content |-> file[This.uri].content, id |-> file[This.uri].id]}
            /\ file' = [file EXCEPT ![This.uri] = NoFile]
            /\ Goto("unlink")
    /\ UNCHANGED <<object, bound, ledger, made>> /\ Quiet

\* _unlink_verified_quarantine: what was moved is deleted if it is the planned file and
\* nobody has taken its name; otherwise it stays in quarantine.
StaysAside(q) == q # This \/ file[This.uri] # NoFile

Unlink ==
    /\ In("unlink")
    /\ aside' = {q \in aside : StaysAside(q)}
    /\ Goto("item")
    /\ UNCHANGED <<file, object, bound, ledger, made>> /\ Quiet

----------------------------------------------------------------------------
\* restore_relocated_proof

BeginRestore(u, c) ==
    /\ In("idle") /\ <<u, c>> \in refs
    /\ call' = [Idle EXCEPT !.pc = "resolve", !.item = [NoItem EXCEPT !.uri = u, !.content = c]]
    /\ UNCHANGED <<file, aside, object, bound, ledger, made>> /\ Quiet

\* resolve_relocated_proof
Resolves(u, c) == bound \in {"manifest", "located"} /\ c \in Archived(u) /\ object[c] = "whole"

Resolve ==
    /\ In("resolve")
    /\ IF Resolves(This.uri, This.content) /\ file[This.uri] = NoFile THEN Goto("restore") ELSE Return
    /\ UNCHANGED <<file, aside, object, bound, ledger, made>> /\ Quiet

CopyBack ==
    /\ In("restore")
    /\ IF file[This.uri] # NoFile
       THEN /\ IF file[This.uri].content = This.content
               THEN call' = [call EXCEPT !.pc = "again", !.seen = Len(ledger)] ELSE Return
            /\ UNCHANGED <<file, made>>
       ELSE /\ made < MaxFiles /\ made' = made + 1
            /\ file' = [file EXCEPT ![This.uri] = [content |-> IF linked THEN This.content ELSE "empty", id |-> made']]
            /\ call' = [call EXCEPT !.pc = IF linked THEN "again" ELSE "refill", !.seen = Len(ledger)]
    /\ UNCHANGED <<aside, object, bound, ledger>> /\ Quiet

Refill ==
    /\ In("refill") /\ file' = [file EXCEPT ![This.uri].content = This.content] /\ Goto("again")
    /\ UNCHANGED <<aside, object, bound, ledger, made>> /\ Quiet

RecordRestored ==
    /\ In("again") /\ Append1("restored") /\ Return
    /\ UNCHANGED <<file, aside, object, bound, made>> /\ Quiet

Die == ~In("idle") /\ Return /\ UNCHANGED <<file, aside, object, bound, ledger, made>> /\ Quiet

Next ==
    \/ \E u \in Uris : Register(u) \/ \E c \in Contents : Write(u, c) \/ BeginRestore(u, c)
    \/ \E keep \in 0 .. 1 : Begin(keep)
    \/ Manifest \/ Name \/ Locator \/ Plan \/ Take \/ CopyObject \/ Fill \/ Record \/ Verify \/ Park \/ Unlink
    \/ Resolve \/ CopyBack \/ Refill \/ RecordRestored \/ Die

Spec == Init /\ [][Next]_vars

----------------------------------------------------------------------------
(* load_verified_ledger: the ledger that any sequence of calls and deaths   *)
(* leaves can be read: its records are chained, a name has one identity,    *)
(* and what is restored was archived before.                                *)
LedgerReplays ==
    \A i \in DOMAIN ledger :
        /\ ledger[i].previous = i - 1
        /\ \A u \in Uris : Cardinality(Archived(u)) <= 1
        /\ ledger[i].action = "restored" =>
              \E k \in 1 .. i - 1 : ledger[k] = [ledger[i] EXCEPT !.action = "archived", !.previous = k - 1]

(* _archive_one: a record is only appended for an object that can be read.   *)
RecordedIsWhole == \A u \in Uris : \A c \in Archived(u) : object[c] = "whole"

(* apply_legacy_catalog_archive: record before remove.  Bytes that a proof  *)
(* binds are under their name, in a quarantine, or resolved from the        *)
(* archive, whatever dies and whatever others put under the name.           *)
BytesStay ==
    \A r \in owed :
        \/ file[r[1]].content = r[2]
        \/ \E q \in aside : q.uri = r[1] /\ q.content = r[2]
        \/ Resolves(r[1], r[2])
=============================================================================
