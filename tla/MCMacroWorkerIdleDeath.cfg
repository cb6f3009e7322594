SPECIFICATION Spec
CONSTANTS
  first = first
  second = second
  json = json
  sql = sql
  json1 = json1
  json2 = json2
  sql1 = sql1
  None = None
  Threads <- MCThreads
  Packages <- MCPackages
  Binaries <- MCBinaries
  PackageOf <- MCPackageOf
  MaxEvents = 4
INVARIANT CompilerSurvives
