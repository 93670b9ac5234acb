\* A download ends while a plugin is unloaded.
SPECIFICATION FairSpec
CONSTANTS
  p1 = p1
  p2 = p2
  p3 = p3
  pluginThread = pluginThread
  downloader = downloader
  LocalPlugins <- OneLocal
  RemotePlugins <- OneRemote
  PluginThread = pluginThread
  Downloaders <- OneDownloader
  MaxThreads = 2
  Instances = 1
  MaxWork <- NoEvents
  SpawnMayFail = FALSE
  Free = Free
  NoThread = NoThread
  NoPlugin = NoPlugin
PROPERTIES
  ShrinkCompletes
\* A finished session is quiet, and the pool's own lock cycle stops it for good.
CHECK_DEADLOCK FALSE
