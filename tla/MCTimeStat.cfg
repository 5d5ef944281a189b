SPECIFICATION Spec
CONSTANTS
    NANOS_PER_SEC = 3
    NANOS_PER_MICROS = 2
    EPOCH_OFFSET = 4
    ClockIds = {"CLOCK_REALTIME", "CLOCK_MONOTONIC", "CLOCK_BOOTTIME"}
    Requests <- Naps
    Start = {0, 2}
    Ticks = {1, 2}
    Clock = 6
INVARIANTS NoUnderflow SystemTimeExact SleepsEnough
PROPERTIES ReportsGrow
CHECK_DEADLOCK FALSE
