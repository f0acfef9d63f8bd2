CONSTANTS
  UnitNum = 2
  MAX_HTML_STACK_DEPTH = 3
  Pages <- MCPages
  max_links_num = 2
  MaxPage = 5
SPECIFICATION Spec
INVARIANTS Nesting OwnResults
