SPECIFICATION MCSpec
CONSTANTS
  view = view
  manifest = manifest
  link = link
  None = None
  File = {view, manifest, link}
  Inside = {view, manifest}
  TextsOf <- MCTextsOf
  MaxEdits = 2
  DataFile = {"menus", "reports", "category", "g", "g of c", "h", "both"}
  XmlId = {"g", "h", "c"}
  About <- MCAbout
  DataLists <- MCLists
INVARIANTS FixFinishes FilesWhole CustomKept DataListKept FixAllSettles
CHECK_DEADLOCK FALSE
