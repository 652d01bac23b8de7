SPECIFICATION FairSpec
CONSTANTS
  Flaps = 2
  Requests = 1
  SmartMax = 2
  Downshift = 1
  Cases = {{"copper", "get_link", "few"}, {"copper", "old"}, {"copper", "igp", "few"}, {"copper", "requests", "few"}, {"serdes", "get_link"}, {"fiber"}}
 
INVARIANT MacFollowsPhy
PROPERTY CarrierFollows
