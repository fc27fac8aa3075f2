SPECIFICATION PromptSpec
CONSTANTS
  Nodes = {n1, n2}
  Timeouts = {1, 2, 3}
  Wrap = 5
PROPERTY DeletedNodeLeaves
