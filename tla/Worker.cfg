\* Module loads that fail, reloads, samples taken while the timer writes; probes
\* that fail, restarts; packets of two CPUs, pushes that fail or lose their answer.
CONSTANTS
    None = None
    Machines <- MCMachines
    Start <- MCStart
    IdleWrap = 4
    IrqWrap = 4
    Nothing = Nothing
    Database = {"mysql", "redis"}
    Limits <- MCLimits
    WriteThreads = {w1, w2}
    QueueLength = 2
    MaxEvents = 3
    MaxRestarts = 1
    MaxTime = 2
    Cpu = {c1, c2}
    Interface = {eth, lo}
    Slot = {s1, s2, s3}
    Capacities = {1, 2}
    MaxPackets = 3
    NoSlot = NoSlot
    Nobody = Nobody
    Identities <- MCIdentities
SPECIFICATION Spec
CHECK_DEADLOCK FALSE
INVARIANTS PagesOutliveUsers SamplesPlausible DownRaisesOnlyDown CountedOnceInOrder PacketsAtMostOnce
PROPERTY SettledCountsExactly
