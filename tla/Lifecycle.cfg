CONSTANTS
    Components = {"etcd_client", "grpc", "registry"}
    Callers = {g1, g2}
    Nobody = Nobody
SPECIFICATION LifecycleSpec
INVARIANTS UpIsPrefix HealthCopyIsWhole
PROPERTIES ImplementsStack
