\* One invocation of the rotation monitor, every command on every host.
SPECIFICATION Spec
INVARIANT TypeOK
