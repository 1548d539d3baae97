CONSTANTS
  h1 = h1
  h2 = h2
  p1 = p1
  p2 = p2
  Handlers = {h1, h2}
  Projects = {p1, p2}
  Requests <- RequestsForOne
  None = None
  MaxVersion = 1
  MaxPending = 1
SPECIFICATION Spec
PROPERTY CreateKeepsPublished
