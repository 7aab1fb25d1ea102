----------------------------- MODULE ProxyBuffer -----------------------------
(***************************************************************************)
(* The proxy buffer's RegisterDevice handler (src/src/proxy_buffer/        *)
(* services/proxybuffer.go) serving concurrent clients over gRPC.  The     *)
(* handler validates the request, inserts the record into the local        *)
(* database and answers.  gRPC runs each call on its own goroutine; the    *)
(* handler's only shared access is the one s.db.InsertDevice call, so a    *)
(* handler is one step.                                                    *)
(*                                                                         *)
(* The validators and db packages are not under src/.  The validator's     *)
(* verdict is a field of the record; InsertDevice may return any outcome   *)
(* the handler has to deal with (see InsertResults).                       *)
(***************************************************************************)
EXTENDS Naturals, FiniteSets

CONSTANTS
    Clients,    \* ATE hosts calling RegisterDevice
    DeviceIds,  \* request.Record.DeviceId values
    Data,       \* the rest of a registry record, abstracted
    NoRecord    \* "no record for this device in the buffer"

\* A registry record; valid is the verdict of
\* validators.ValidateDeviceRegistrationRequest on it.
Records == [id : DeviceIds, data : Data, valid : BOOLEAN]

\* The DeviceRegistrationStatus values of proxy_buffer.proto, and "none"
\* for a response message the caller never receives.
Statuses == {"SUCCESS", "BAD_REQUEST", "BUFFER_FULL", "none"}

\* A client whose call has not been answered yet.
NoReply(c) == [to |-> c, code |-> "none", status |-> "none"]

VARIABLES
    rec,     \* the record each client registers
    pending, \* clients whose call the server has not handled yet
    got,     \* what each client received: gRPC code and response status
    db       \* the buffer: for each device, its record or NoRecord

vars == <<rec, pending, got, db>>

-----------------------------------------------------------------------------
(* NewProxyBufferServer over an empty buffer; each client holds a record. *)
Init ==
    /\ rec \in [Clients -> Records]
    /\ pending = {}
    /\ got = [c \in Clients |-> NoReply(c)]
    /\ db = [d \in DeviceIds |-> NoRecord]

\* A client calls Registry.RegisterDevice.
Send(c) ==
    /\ c \notin pending
    /\ got[c] = NoReply(c)
    /\ pending' = pending \cup {c}
    /\ UNCHANGED <<rec, got, db>>

(* s.db.InsertDevice(ctx, r): what the handler can get back.  A storage    *)
(* failure can happen at any time.  A new device is stored.  A device      *)
(* still in the buffer with other data is an error (the handler's comment).*)
(* The same record again may succeed or fail: nothing under src/ says.    *)
InsertResults(r) ==
    {[ok |-> FALSE, db |-> db]}
      \cup (IF db[r.id] = NoRecord
              THEN {[ok |-> TRUE, db |-> [db EXCEPT ![r.id] = r]]}
              ELSE IF db[r.id] = r THEN {[ok |-> TRUE, db |-> db]} ELSE {})

(* What gRPC delivers of (response, err): with a non-nil error the         *)
(* response message is dropped and the caller gets only the code.         *)
Transmit(c, status, code) ==
    [to |-> c, code |-> code,
     status |-> IF code = "OK" THEN status ELSE "none"]

(* RegisterDevice on the call of client c: validation fails with           *)
(* BAD_REQUEST and InvalidArgument; an InsertDevice error with BAD_REQUEST *)
(* and Internal; otherwise SUCCESS.                                        *)
RegisterDevice(c) ==
    /\ c \in pending
    /\ pending' = pending \ {c}
    /\ \/ /\ ~rec[c].valid
          /\ got' = [got EXCEPT ![c] = Transmit(c, "BAD_REQUEST", "InvalidArgument")]
          /\ UNCHANGED db
       \/ /\ rec[c].valid
          /\ \E ins \in InsertResults(rec[c]) :
                /\ db' = ins.db
                /\ got' = [got EXCEPT ![c] =
                             IF ins.ok THEN Transmit(c, "SUCCESS", "OK")
                                       ELSE Transmit(c, "BAD_REQUEST", "Internal")]
    /\ UNCHANGED rec

Next == \E c \in Clients : Send(c) \/ RegisterDevice(c)

Spec == Init /\ [][Next]_vars

-----------------------------------------------------------------------------
TypeOK ==
    /\ rec \in [Clients -> Records]
    /\ pending \subseteq Clients
    /\ \A c \in Clients : got[c].to = c /\ got[c].status \in Statuses
    /\ db \in [DeviceIds -> Records \cup {NoRecord}]

(* proxy_buffer.proto gives DeviceRegistrationResponse a status whose      *)
(* failure values are BAD_REQUEST and BUFFER_FULL, and the handler sets    *)
(* BAD_REQUEST on both of its error paths (lines 49 and 55): a client     *)
(* whose registration failed is told so by the response status.           *)
FailureStatusReported ==
    \A c \in Clients :
        got[c].code \in {"InvalidArgument", "Internal"} =>
            got[c].status \in {"BAD_REQUEST", "BUFFER_FULL"}

=============================================================================
