CONSTANTS
  Tabs = {t1, t2}
  MaxLoads = 3
  MaxMessages = 4
  MaxForms = 2
  MaxPosts = 2
  MaxStored = 3
  Today = 2
  Files = {fa, fb}
  MaxChoices = 3
  MaxUploads = 2
  Images = {ia, ib}
  Others = {oa}
  MaxSelections = 4
SPECIFICATION MCSpec
INVARIANTS Types LastFetchMatches ChatKeepsUp OwnTestimonialShown
  OneChoiceBehind OfferedFileWasStored ResultIsSelected
CHECK_DEADLOCK FALSE
