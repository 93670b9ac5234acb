\* Two local plugins, one remote: the plugin thread and a download task race.
SPECIFICATION FairSpec
CONSTANTS
  p1 = p1
  p2 = p2
  p3 = p3
  pluginThread = pluginThread
  downloader = downloader
  LocalPlugins <- TwoLocal
  RemotePlugins <- OneRemote
  PluginThread = pluginThread
  Downloaders <- OneDownloader
  MaxThreads = 3
  Instances = 2
  MaxWork <- FirstGetsEvent
  SpawnMayFail = TRUE
  Free = Free
  NoThread = NoThread
  NoPlugin = NoPlugin
INVARIANTS
  AssignmentsHold
  BusyCountExact
  
PROPERTIES
  AcceptedJobsRun
\* A finished session is quiet, and the pool's own lock cycle stops it for good.
CHECK_DEADLOCK FALSE
