CONSTANTS
  Width = 3
  Height = 2
  Template = {"house", "shop", "villa"}
  Size <- MCSize
  Views <- SmallViews
  Cities <- SmallCities
  MaxSlips = 2
SPECIFICATION Spec
INVARIANTS ScanTypeOK MergeIsUnion ExactScanIsCity
