---------------------------- MODULE MCLifecycle ----------------------------
EXTENDS LifecycleProperties

TheGate == {2}
Last == {3}
OneOfEach == [f \in Kinds |-> 1]
=============================================================================
