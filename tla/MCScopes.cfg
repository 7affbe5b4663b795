SPECIFICATION Spec
CONSTANTS
  Pwd = PWD
  OldPwd = OLDPWD
  NoValue = NoValue
  Empty = e
  Names = {PWD, OLDPWD}
  Values = {e, d1}
  Dirs = {d1}
  Inherited = {}
  RefTargets = {OLDPWD}
  MaxVars = 1
  MaxHops = 2
  MaxParams = 1
  MaxDepth = 2
  RichDepth = 0
  LostDepth = 0
INVARIANTS
  EnvExact
PROPERTIES
  CallerKeeps ParamsKept GlobalsShared
