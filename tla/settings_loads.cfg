SPECIFICATION SettingsSpec
CONSTANTS
  Loaders = {"python", "dotnet", "ts", "go", "rust", "c"}
  StartEnvs <- StartEnvironments
  Files <- EnvFiles
  LaterFiles <- EditedFiles
  MaxLoads = 2
INVARIANTS LoadsAsDocumented NothingMisread ReloadIsFresh
CHECK_DEADLOCK FALSE
