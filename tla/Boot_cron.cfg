SPECIFICATION FairSpec
CONSTANTS
  Route = "cron"
  Voices = {"v1", "v2"}
  VoiceDirs = {{}}
  MaxRuns = 2
  OwnKeys = {"own"}
  ForeignKeys = {}
  OddKeys = {}
PROPERTIES EnabledWatcherScans
