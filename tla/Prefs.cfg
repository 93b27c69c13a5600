SPECIFICATION Spec
CONSTANTS
  Intervals <- FractionalIntervals
  Sizes <- OddSizes
  Images = {pic}
  NoImage = NoImage
  BundleImage = BundleImage
  Sources = {Mail, External}
  MailSource = Mail
  People = {ann, bob}
  Groups = {friends}
  Null = Null
  MaxEdits = 3
INVARIANTS ClosedShowsUse SourceShown
PROPERTIES Restored RecordsRestored
