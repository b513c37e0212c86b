----------------------------- MODULE MCAccountLock -----------------------------
EXTENDS AccountLock
================================================================================
