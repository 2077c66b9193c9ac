SPECIFICATION Spec
CONSTANTS
  root = root
  recent = recent
  favs = favs
  colls = colls
  mix = mix
  gb = gb
  ps = ps
  disc1 = disc1
  disc2 = disc2
  g = g
  d1 = d1
  d2 = d2
  clock = clock
  NoRom = none
  Root = root
  Recents = recent
  Favourites = favs
  Collections = colls
  Rows = 2
  Savers = {d1}
  MAX_RECENTS = 2
  Dir <- MCDir
  Rom = {g, d1, d2}
  Pak = {clock}
  Systems <- MCSystems
  Files <- MCFiles
  Launches <- MCLaunches
  Path <- MCPath
  Letter <- MCLetter
  Alias <- MCAlias
  Inputs <- AllInputs
INVARIANTS
  TypeOK
  ShowsSelection
  RestoreFits
  ReturnsToGame
  ResumeIsForSelected
  RecentsInOrder
