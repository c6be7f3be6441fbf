SPECIFICATION Spec
CONSTANTS
    w1 = w1  w2 = w2  c1 = c1  public = public  private = private
    Workers = {w1, w2}
    Callers = {c1}
    Boundaries = {public, private}
    Threshold = 2
    MaxBatches = 1
    MaxEvents = 3
    NoRow = NoRow  NoOne = NoOne  Gone = Gone
SYMMETRY Symmetry
INVARIANTS SegmentsAreExact BacklogIsAnnounced
