----------------------------- MODULE ClipIndex ------------------------------
(***************************************************************************)
(* What clip_store promises: one index of keys, shared by any number of    *)
(* command invocations.  Each row takes effect at one moment between its   *)
(* submission and the end of its invocation; an invocation that reports    *)
(* success has had every row take effect; a row leaves the index only when *)
(* another replaces it or when no query could return it any more.          *)
(***************************************************************************)
EXTENDS Naturals

CONSTANTS Clients, Keys, Rows, None

VARIABLES
  kv,        (* the latest row of each key, or None                        *)
  now,       (* the time                                                   *)
  status,    (* of each client's invocation: "running", "ok", "failed"     *)
  began,     (* when a running invocation got hold of the index, else 0    *)
  pending,   (* the row it submitted that has not taken effect, or None    *)
  asked,     (* the keys it was started for, while it runs                 *)
  answer     (* what it printed, while it runs                             *)

indexVars == <<kv, now, status, began, pending, asked, answer>>

(* A row is live at t unless it is a tombstone or its time has come. *)
Live(row, t) == row # None /\ ~row.tomb /\ (row.exp = 0 \/ row.exp > t)

Init ==
  /\ kv = [k \in Keys |-> None]
  /\ now = 0
  /\ status = [c \in Clients |-> "ok"]
  /\ began = [c \in Clients |-> 0]
  /\ pending = [c \in Clients |-> None]
  /\ asked = [c \in Clients |-> {}]
  /\ answer = [c \in Clients |-> {}]

Start(c, keys) ==
  /\ status[c] # "running"
  /\ status' = [status EXCEPT ![c] = "running"]
  /\ asked' = [asked EXCEPT ![c] = keys]
  /\ UNCHANGED <<now, began, pending, answer, kv>>

Enter(c) ==
  /\ status[c] = "running"
  /\ began' = [began EXCEPT ![c] = now]
  /\ UNCHANGED <<now, status, pending, asked, answer, kv>>

(* The index once the row of c has taken effect. *)
Applied(c) ==
  IF pending[c] = None THEN kv ELSE [kv EXCEPT ![pending[c].key] = pending[c]]

(* A row is submitted once the one before it has taken effect. *)
Submit(c) ==
  /\ status[c] = "running"
  /\ pending'[c] \in {row \in Rows : row.key \in asked[c]}
  /\ pending' = [pending EXCEPT ![c] = pending'[c]]
  /\ UNCHANGED <<now, status, began, asked, answer>>
  /\ kv' = Applied(c)

Commit(c) ==
  /\ status[c] = "running" /\ pending[c] # None
  /\ pending' = [pending EXCEPT ![c] = None]
  /\ UNCHANGED <<now, status, began, asked, answer>>
  /\ kv' = Applied(c)

(* The live rows of the keys asked for, at the moment of the answer. *)
Read(c) ==
  /\ status[c] = "running"
  /\ UNCHANGED <<now, status, began, pending, asked>>
  /\ answer' = [answer EXCEPT ![c] =
                  {kv[k] : k \in {j \in asked[c] : Live(kv[j], began[c])}}]
  /\ UNCHANGED kv

(* Rows that no query can return any more may be forgotten. *)
Forget ==
  /\ UNCHANGED <<now, status, began, pending, asked, answer>>
  /\ kv' = [k \in Keys |-> kv'[k]]
  /\ \A k \in Keys : kv'[k] = kv[k] \/ (kv'[k] = None /\ ~Live(kv[k], now))

(* The invocation of c is over, with this status. *)
Ended(c, code) ==
  /\ status[c] = "running" /\ status' = [status EXCEPT ![c] = code]
  /\ began' = [began EXCEPT ![c] = 0]
  /\ pending' = [pending EXCEPT ![c] = None]
  /\ asked' = [asked EXCEPT ![c] = {}]
  /\ answer' = [answer EXCEPT ![c] = {}]
  /\ UNCHANGED now

Succeed(c) == pending[c] = None /\ Ended(c, "ok") /\ UNCHANGED kv

(* An error, or the death of the process: its last row may be lost. *)
Fail(c) == Ended(c, "failed") /\ kv' \in {kv, Applied(c)}

Tick == now' = now + 1 /\ UNCHANGED <<status, began, pending, asked, answer, kv>>

Next ==
  \/ Forget
  \/ \E c \in Clients :
       \/ \E keys \in SUBSET Keys : Start(c, keys)
       \/ Enter(c) \/ Submit(c) \/ Commit(c) \/ Read(c) \/ Succeed(c) \/ Fail(c)
  \/ Tick

Spec == Init /\ [][Next]_indexVars
=============================================================================
