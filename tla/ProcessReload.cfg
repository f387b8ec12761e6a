CONSTANTS
    Runs = {r1}
    FST = FST
    Listed = {r1}
    Listeners = {l1}
SPECIFICATION Spec
INVARIANT ReloadWithoutRestart
