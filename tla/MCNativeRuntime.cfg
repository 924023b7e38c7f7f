SPECIFICATION FairSpec
CONSTANTS
  Installer = Installer
  User = User
  Shells = {Installer, User}
  CommandsOf <- MCCommandsOf
  MaxUpsets = 1
  Tools = Tools
  Server = Server
  Cli = Tools
  Products <- MCProducts
  InstallOrder <- MCInstallOrder
  PackageOrder <- MCPackageOrder
  Free = Free
  Stale = Stale
INVARIANTS
  TypeOK
  OnlyPatchedIsUsed
  NoServerLeft
PROPERTIES
  EditsKept
  ReadyIsStable
  CommandEnds
