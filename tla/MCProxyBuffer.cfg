\* Two clients on one device with two data values: invalid records,
\* conflicts and storage failures all reach the failure replies.
CONSTANTS
    Clients = {c1, c2}
    DeviceIds = {d1}
    Data = {x, y}
    NoRecord = NoRecord
SPECIFICATION Spec
INVARIANT FailureStatusReported
CHECK_DEADLOCK FALSE
SYMMETRY Symmetry
