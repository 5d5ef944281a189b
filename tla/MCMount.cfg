SPECIFICATION MountSpec
CONSTANTS
    t1 = t1
    t2 = t2
    Threads = {t1, t2}
    Paths <- AllPaths
    FsTypes = {"vfat", "ext4"}
    Flags = {0, 1}
    MaxMounted = 2
PROPERTIES UmountClears
