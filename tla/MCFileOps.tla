----------------------------- MODULE MCFileOps ------------------------------
\* TLC's instances of FileOps; the values are in the .cfg files.
EXTENDS FileOps

\* Files and contents, with links; files, attributes and renames; directories.
\* (truncate-overwrite is the action of overwrite, chmod that of stat.)
ThreeCampaigns ==
  {{"create", "append", "overwrite", "read", "swift-get", "symlink", "swift-put",
    "cleanup"},
   {"create", "setxattr", "getxattr", "swift-put", "delete", "rename",
    "delete-renamed", "stat", "cleanup"},
   {"create", "mkdir", "rmdir", "readdir", "ls-l", "swift-put", "cleanup"}}

OneCampaign == {{"create", "cleanup"}}
=============================================================================
