SPECIFICATION FairSpec
CONSTANT Plans <- SmallPlans
INVARIANTS TypeOK ChunksTile ProgressIsOnDisk ChunkIsOneVersion
PROPERTIES ImplementsResumableFile CancelStops
