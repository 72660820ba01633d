\* Two menus with three items, three folders, two files in them and five more for
\* the command line; up to two events wait in the queue.
SPECIFICATION Spec
CONSTANTS
  Menus <- MCMenus
  Items <- MCItems
  Points <- MCPoints
  Folders <- MCFolders
  Home = "home"
  Listing <- MCListing
  Child <- MCChild
  Image <- MCImage
  Deletable = {"whole"}
  Arguments <- MCArguments
  UserKeys = {"p", "Down", "Return"}
  MaxPosted = 2
INVARIANTS
  DiesAsListed
  OpensWhatWasChosen
  BanksAsFiled
  OneMenuOpen
PROPERTY
  QuitEnds
