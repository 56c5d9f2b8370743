SPECIFICATION Spec
CONSTANTS
    Runs = {api, cron}
    Keep = 1
    MaxVersion = 2
    MaxArchives = 3
    MaxDay = 3
INVARIANTS
    PublishedIsSound
    NeverWithout
