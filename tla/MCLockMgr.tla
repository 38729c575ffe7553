---- MODULE MCLockMgr ----
EXTENDS LockMgr
====
