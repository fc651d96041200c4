\* Three public paths and a private one, every small manifest over them, and
\* two changes by the author.
CONSTANTS
    Paths = {"a", "b", "c", "p"}
    Private = {"p"}
    Manifests <- NonEmptyManifests
    MaxEdits = 2
SPECIFICATION Spec
INVARIANTS
    PlansDeclaredPayload
    BytesComeFromSource
