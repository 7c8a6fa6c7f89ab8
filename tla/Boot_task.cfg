SPECIFICATION FairSpec
CONSTANTS
  Route = "task"
  Voices = {"v1", "v2"}
  VoiceDirs = {{}, {"v1"}}
  MaxRuns = 2
  OwnKeys = {"own", "odd"}
  ForeignKeys = {"foreign"}
  OddKeys = {"odd"}
INVARIANTS TypeOK BootsIfSound DisabledNeverFires OneWatcher InjectionExact ForeignSessionsUnseen ListedIsServed NeverAnotherVoice
PROPERTIES FactoryAllOrNothing EnabledWatcherScans
