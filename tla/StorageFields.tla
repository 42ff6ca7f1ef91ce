--------------------------- MODULE StorageFields ----------------------------
(* StorageManager of proxmoxer/helpers/storage.py and PoolManager of         *)
(* proxmoxer/helpers/pools.py.                                              *)
EXTENDS HelperFields

\* "enabled" is the key "disable" turned round.
StorageRead ==
    Required({"storage", "type"}) ++ By("inverse", {"disable"}) ++ FlagOff({"shared"})
    ++ Plain({"content", "nodes", "path", "server", "export", "pool", "username", "maxfiles",
              "prune-backups"})

StorageSet ==
    Inverted({"disable"}) ++ Truthy({"delete"})
    ++ Given({"content", "nodes", "maxfiles", "prune-backups", "config"})

\* Each type of storage has a method to create it; all are updated and read by the
\* same ones.
Storage(type, add) ==
    Object(type, Always({"storage", "type"}) ++ add, StorageSet, StorageRead, {"storage"})

AnyStorage == Storage("storage", Always({"config"}))

NFSStorage ==
    Storage("nfs", Always({"server", "export"})
                   ++ Truthy({"content", "nodes", "maxfiles", "prune-backups", "options"}))

CIFSStorage ==
    Storage("cifs", Always({"server", "share"})
                    ++ Truthy({"username", "password", "domain", "content", "nodes", "maxfiles",
                               "prune-backups"}))

DirStorage ==
    Storage("dir", Always({"path"}) ++ On({"shared"})
                   ++ Truthy({"content", "nodes", "maxfiles", "prune-backups"}))

LVMStorage ==
    Storage("lvm", Always({"vgname"}) ++ Truthy({"content", "nodes"}) ++ On({"shared"}))

LVMThinStorage ==
    Storage("lvmthin", Always({"vgname", "thinpool"}) ++ Truthy({"content", "nodes"}))

ZFSStorage ==
    Storage("zfspool", Always({"pool"}) ++ Truthy({"content", "nodes", "blocksize"})
                       ++ On({"sparse"}))

RBDStorage ==
    Storage("rbd", Always({"pool", "monhost"}) ++ Truthy({"username", "content", "nodes"})
                   ++ On({"krbd"}))

PBSStorage ==
    Storage("pbs", Always({"server", "datastore", "username"})
                   ++ Truthy({"password", "fingerprint", "content", "nodes", "maxfiles",
                              "prune-backups"}))

-----------------------------------------------------------------------------
PoolRead == Required({"poolid"}) ++ Plain({"comment", "members"})

Pool == Object("Pool", Always({"poolid"}) ++ Truthy({"comment"}), Given({"comment"}),
               PoolRead, {"poolid"})

\* The other keys of update_pool add members and take them out.
PoolMembers ==
    Command("update_pool", Given({"storage", "vms", "delete-storage", "delete-vms", "delete"}))

StorageFamilies ==
    {AnyStorage, NFSStorage, CIFSStorage, DirStorage, LVMStorage, LVMThinStorage, ZFSStorage,
     RBDStorage, PBSStorage, Pool, PoolMembers}

=============================================================================
