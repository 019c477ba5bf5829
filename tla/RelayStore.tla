----------------------------- MODULE RelayStore -----------------------------
(***************************************************************************)
(* The in-memory state of the relay (mobile/relay/store/store.go): hosts   *)
(* and their pairing PINs, paired devices, session and refresh tokens, and *)
(* the garbage collection that runs on a timer.  Every exported method     *)
(* holds the store's mutex from its first line to its return, so each is   *)
(* one step here.                                                          *)
(*                                                                         *)
(* Time is a counter of abstract units; the constants keep the order of    *)
(* the durations in the source.  Start lies beyond StaleAfter because the  *)
(* clock counts from 1970: a LastSeen that was never set looks stale.      *)
(* Tokens are random: a name may be used again once no table holds it,     *)
(* for whoever still presents the old token is refused all the same.       *)
(***************************************************************************)
EXTENDS Integers, FiniteSets

CONSTANTS Host, Device, Token, HostToken, FixedPin,
          PinTTL, PinLockDuration, SessionTTL, DeviceStaleAfter,
          PinMaxFailures, MaxDevices,
          Start, End,     \* bounds of the clock; no upper one if End = Start - 1
          None

ASSUME StoreAssumption ==
    /\ {PinTTL, PinLockDuration, SessionTTL, DeviceStaleAfter}
         \subseteq Nat \ {0}
    /\ PinTTL < PinLockDuration
    /\ PinMaxFailures \in Nat \ {0}
    /\ MaxDevices \in Nat
    /\ Start \in Nat /\ Start > DeviceStaleAfter
    /\ End \in Nat
    /\ IsFiniteSet(Device)

ASSUME NoneAssumption ==
    /\ None \notin Host \cup Device \cup Token \cup HostToken \cup FixedPin

VARIABLES
    now,          \* time.Now()
    hosts,        \* Store.hosts
    hostByToken,  \* Store.hostByToken
    devices,      \* Store.devices
    sessions,     \* Store.sessions
    refresh       \* Store.refresh: refresh token -> session token

storeVars == <<now, hosts, hostByToken, devices, sessions, refresh>>

Ticket == [expiresAt : Int, used : BOOLEAN, failCount : 0..PinMaxFailures]
HostRecord ==
    [tokenHash : HostToken, pair : Ticket \cup {None}, fixedPin : FixedPin \cup {None},
     pinFails : 0..(PinMaxFailures - 1), lockedUntil : Int,
     devices : SUBSET Device, lastSeen : Int]
DeviceRecord  == [host : Host, createdAt : Int, lastSeen : Int]
SessionRecord == [device : Device, host : Host, expiresAt : Int]

\* A record is never taken for a missing one.
ASSUME RecordAssumption ==
    None \notin Ticket \cup HostRecord \cup DeviceRecord \cup SessionRecord

StoreInit ==
    /\ now = Start
    /\ hosts = [h \in Host |-> None]
    /\ hostByToken = [t \in HostToken |-> None]
    /\ devices = [d \in Device |-> None]
    /\ sessions = [t \in Token |-> None]
    /\ refresh = [t \in Token |-> None]

StoreTick ==
    /\ now # End
    /\ now' = now + 1
    /\ UNCHANGED <<hosts, hostByToken, devices, sessions, refresh>>

-----------------------------------------------------------------------------
(* Hosts. *)

NewHost(tok) ==
    [tokenHash |-> tok, pair |-> None, fixedPin |-> None, pinFails |-> 0,
     lockedUntil |-> 0, devices |-> {}, lastSeen |-> now]

FreshTicket == [expiresAt |-> now + PinTTL, used |-> FALSE, failCount |-> 0]

\* An existing host is registered again only with its current token or with
\* its fixed PIN.
MayRegister(h, pin, tok) ==
    hosts[h] # None =>
        \/ tok = hosts[h].tokenHash
        \/ pin # None /\ pin = hosts[h].fixedPin

\* Faulty form of PinFields: a new ticket lifts the lock.
PinFieldsUnlock(r, pin) ==
    CASE pin # None -> [r EXCEPT !.fixedPin = pin, !.pair = None]
      [] pin = None /\ r.fixedPin # None -> r
      [] OTHER -> [r EXCEPT !.pair = FreshTicket, !.lockedUntil = 0]

\* A PIN from the shell becomes the fixed one, a fixed PIN stays, and a host
\* without one gets a fresh short-lived ticket.
PinFields(r, pin) ==
    CASE pin # None -> [r EXCEPT !.fixedPin = pin, !.pair = None]
      [] pin = None /\ r.fixedPin # None -> r
      [] OTHER -> [r EXCEPT !.pair = FreshTicket]

\* RegisterHost: `tok` is what the bridge presents, `new` what it is given.
\* A weak PIN and a refused caller change nothing.
RegisterHost(h, pin, tok, new) ==
    /\ MayRegister(h, pin, tok)
    /\ hostByToken[new] = None
    /\ LET r == IF hosts[h] = None THEN NewHost(new)
                ELSE [hosts[h] EXCEPT !.tokenHash = new, !.lastSeen = now]
       IN hosts' = [hosts EXCEPT ![h] = PinFields(r, pin)]
    /\ hostByToken' = [hostByToken EXCEPT ![new] = h]
    /\ UNCHANGED <<now, devices, sessions, refresh>>

-----------------------------------------------------------------------------
(* Pairing. *)

\* PairDevice gets as far as comparing the PIN.
PinAccepting(r) ==
    /\ r # None
    /\ r.lockedUntil <= now
    /\ r.fixedPin = None =>
         r.pair # None /\ now <= r.pair.expiresAt /\ ~r.pair.used

\* Faulty form of LockTime: a lock that only outlasts the ticket.
LockTimeShort(r) == IF r.pair = None THEN now + PinLockDuration ELSE r.pair.expiresAt
LockTime(r) == now + PinLockDuration

\* Faulty form of FixedLock: the counter is not reset.
FixedLockNoReset(r) == [r EXCEPT !.pinFails = @ + 1, !.lockedUntil = LockTime(r)]
FixedLock(r) == [r EXCEPT !.pinFails = 0, !.lockedUntil = LockTime(r)]

\* What a wrong PIN leaves of the host's record.
WrongPin(r) ==
    IF r.fixedPin # None
    THEN IF r.pinFails + 1 >= PinMaxFailures THEN FixedLock(r)
         ELSE [r EXCEPT !.pinFails = @ + 1]
    ELSE [r EXCEPT !.pair.failCount = @ + 1,
                   !.lockedUntil = IF r.pair.failCount + 1 >= PinMaxFailures
                                   THEN LockTime(r) ELSE @]

\* What the right PIN leaves of it: a ticket is spent before the device limit
\* is looked at.
RightPin(r) == IF r.fixedPin # None THEN [r EXCEPT !.pinFails = 0]
                                    ELSE [r EXCEPT !.pair.used = TRUE]

FreshToken(t) == sessions[t] = None /\ refresh[t] = None
FreshDevice(d) ==
    devices[d] = None /\ \A t \in Token : sessions[t] # None => sessions[t].device # d

PairWrong(h) ==
    /\ PinAccepting(hosts[h])
    /\ hosts' = [hosts EXCEPT ![h] = WrongPin(@)]
    /\ UNCHANGED <<now, hostByToken, devices, sessions, refresh>>

PairRefused(h) ==
    /\ PinAccepting(hosts[h])
    /\ Cardinality(hosts[h].devices) >= MaxDevices
    /\ hosts' = [hosts EXCEPT ![h] = RightPin(@)]
    /\ UNCHANGED <<now, hostByToken, devices, sessions, refresh>>

PairDevice(h, d, t) ==
    /\ PinAccepting(hosts[h])
    /\ Cardinality(hosts[h].devices) < MaxDevices
    /\ FreshDevice(d)
    /\ FreshToken(t)
    /\ hosts' = [hosts EXCEPT
         ![h] = [RightPin(hosts[h]) EXCEPT !.devices = @ \cup {d}]]
    /\ devices' = [devices EXCEPT ![d] = [host |-> h, createdAt |-> now, lastSeen |-> 0]]
    /\ sessions' = [sessions EXCEPT
         ![t] = [device |-> d, host |-> h, expiresAt |-> now + SessionTTL]]
    /\ refresh' = [refresh EXCEPT ![t] = t]
    /\ UNCHANGED <<now, hostByToken>>

-----------------------------------------------------------------------------
(* Sessions. *)

\* SessionByToken.
Valid(t) == sessions[t] # None /\ now <= sessions[t].expiresAt

\* Faulty form of Rotated: the old session token goes on working.
RotatedBoth(old, new, s) == [sessions EXCEPT ![new] = s]
Rotated(old, new, s) == [sessions EXCEPT ![old] = None, ![new] = s]

\* RefreshSession with the refresh token rt: both tokens are replaced.
RefreshSession(rt, new) ==
    /\ refresh[rt] # None
    /\ sessions[refresh[rt]] # None
    /\ FreshToken(new)
    /\ LET old == refresh[rt] IN
         sessions' = Rotated(old, new,
                             [sessions[old] EXCEPT !.expiresAt = now + SessionTTL])
    /\ refresh' = [refresh EXCEPT ![rt] = None, ![new] = new]
    /\ UNCHANGED <<now, hosts, hostByToken, devices>>

RevokeSession(t) ==
    /\ sessions[t] # None
    /\ sessions' = [sessions EXCEPT ![t] = None]
    /\ refresh' = [r \in Token |-> IF refresh[r] = t THEN None ELSE refresh[r]]
    /\ UNCHANGED <<now, hosts, hostByToken, devices>>

\* A device tunnel comes up: handleDevice checks the session and touches the
\* device.
TouchDevice(t) ==
    /\ Valid(t)
    /\ devices[sessions[t].device] # None
    /\ devices' = [devices EXCEPT ![sessions[t].device].lastSeen = now]
    /\ UNCHANGED <<now, hosts, hostByToken, sessions, refresh>>

-----------------------------------------------------------------------------
(* Garbage collection. *)

Expired(t)  == sessions[t] # None /\ now > sessions[t].expiresAt
StaleDevice(d) == devices[d] # None /\ now - devices[d].lastSeen > DeviceStaleAfter

\* Faulty form of KeptDevices: a dropped device keeps its slot at the host.
KeptDevicesAll(h) == hosts[h].devices
KeptDevices(h) == {d \in hosts[h].devices : ~StaleDevice(d)}

DeadHost(h) ==
    /\ hosts[h] # None
    /\ KeptDevices(h) = {}
    /\ now - hosts[h].lastSeen > DeviceStaleAfter

\* One pass: sessions, then refresh tokens without a session, devices, hosts.
GC ==
    /\ sessions' = [t \in Token |-> IF Expired(t) THEN None ELSE sessions[t]]
    /\ refresh' = [r \in Token |->
         IF refresh[r] = None \/ sessions[refresh[r]] = None \/ Expired(refresh[r])
         THEN None ELSE refresh[r]]
    /\ devices' = [d \in Device |-> IF StaleDevice(d) THEN None ELSE devices[d]]
    /\ hosts' = [h \in Host |->
         IF hosts[h] = None \/ DeadHost(h) THEN None
         ELSE [hosts[h] EXCEPT !.devices = KeptDevices(h)]]
    /\ UNCHANGED <<now, hostByToken>>

-----------------------------------------------------------------------------
StoreNext ==
    \/ StoreTick
    \/ GC
    \/ \E h \in Host, pin \in FixedPin \cup {None}, new \in HostToken,
          tok \in HostToken \cup {None} : RegisterHost(h, pin, tok, new)
    \/ \E h \in Host : PairWrong(h) \/ PairRefused(h)
    \/ \E h \in Host, d \in Device, t \in Token : PairDevice(h, d, t)
    \/ \E rt, new \in Token : RefreshSession(rt, new)
    \/ \E t \in Token : RevokeSession(t) \/ TouchDevice(t)

StoreSpec == StoreInit /\ [][StoreNext]_storeVars

-----------------------------------------------------------------------------
(* Properties. *)

\* Field ranges; the limits of both counters of wrong PINs are in them.
StoreTypeOK ==
    /\ now \in Nat
    /\ hosts \in [Host -> HostRecord \cup {None}]
    /\ hostByToken \in [HostToken -> Host \cup {None}]
    /\ devices \in [Device -> DeviceRecord \cup {None}]
    /\ sessions \in [Token -> SessionRecord \cup {None}]
    /\ refresh \in [Token -> Token \cup {None}]

\* Store.devices and the device sets of the hosts describe one relation, so
\* the device limit counts what exists: no slot leaks when GC drops a device,
\* and no device outlives its host.
TablesAgree ==
    /\ \A h \in Host : hosts[h] # None =>
         \A d \in hosts[h].devices : devices[d] # None /\ devices[d].host = h
    /\ \A d \in Device : devices[d] # None =>
         /\ hosts[devices[d].host] # None
         /\ d \in hosts[devices[d].host].devices

\* Across pairing, rotation, revocation and GC, a device has at most one
\* session, a session exactly one refresh token, and no refresh token points
\* at a session that is gone.
OneCredential ==
    /\ \A s, t \in Token : sessions[s] # None /\ sessions[t] # None
                           /\ sessions[s].device = sessions[t].device => s = t
    /\ \A r \in Token : refresh[r] # None => sessions[refresh[r]] # None
    /\ \A q, r \in Token : refresh[q] # None /\ refresh[q] = refresh[r] => q = r
    /\ \A s \in Token : sessions[s] # None => \E r \in Token : refresh[r] = s

\* A ticket that took PinMaxFailures wrong guesses is never compared with a
\* guess again: the lock outlasts what is left of its lifetime.
SpentTicketDead ==
    \A h \in Host :
        /\ hosts[h] # None
        /\ hosts[h].fixedPin = None
        /\ hosts[h].pair # None
        /\ hosts[h].pair.failCount >= PinMaxFailures
        => ~PinAccepting(hosts[h])

\* Nothing lifts the lock of a host that stays in the table, above all not a
\* new registration.
LockKept ==
    [][\A h \in Host : hosts[h] # None /\ hosts'[h] # None
                       /\ hosts[h].lockedUntil > now
         => hosts'[h].lockedUntil >= hosts[h].lockedUntil]_storeVars

\* The tokens the store honours, as the abstract credentials see them: pairing
\* issues a token, a refresh rotates it, revocation and GC withdraw some, and no
\* other method touches them.
holder == [t \in Token |-> IF sessions[t] = None THEN None ELSE sessions[t].device]
C == INSTANCE Credentials WITH holder <- holder
ImplementsCredentials == C!Spec
=============================================================================
