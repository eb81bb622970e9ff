-------------------------- MODULE MCLifecyclePolicy --------------------------
EXTENDS LifecyclePolicy

Backoffs == <<1, 2>>
=============================================================================
