SPECIFICATION Spec
CONSTANTS
  Count = 7
  Wake = 5
  Room = 4
  Shapes <- MCShapes
  Skb = {s1, s2}
  Cases = {{"slow"}, {"link"}, {"82547"}, {"down"}, {"map_fails"}}
SYMMETRY SkbSymmetry
INVARIANT RingConsistent
INVARIANT NoLostWake
 
PROPERTY ImplementsFifo
