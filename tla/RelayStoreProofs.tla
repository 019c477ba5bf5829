-------------------------- MODULE RelayStoreProofs --------------------------
(***************************************************************************)
(* Proofs about the relay's store, for any numbers of hosts, devices and   *)
(* tokens, any durations that keep the order the constants assume and any  *)
(* length of a run.                                                        *)
(***************************************************************************)
EXTENDS RelayStore, TLAPS

-----------------------------------------------------------------------------
(* Tokens.  This part needs the types of the token tables only. *)

\* The types of the token tables.
TokenTypes ==
    /\ now \in Int
    /\ sessions \in [Token -> SessionRecord \cup {None}]
    /\ refresh \in [Token -> Token \cup {None}]

\* The inductive invariant of the tokens.
TokenInv == TokenTypes /\ OneCredential

\* Steps that leave the token tables alone.
TokensUntouched == UNCHANGED <<sessions, refresh>>

\* The steps of the store, as far as the token tables are concerned.
LEMMA TokenCases ==
    ASSUME StoreNext, now \in Int
    PROVE  /\ now' \in Int
           /\ \/ TokensUntouched
              \/ GC
              \/ \E h \in Host, d \in Device, t \in Token : PairDevice(h, d, t)
              \/ \E rt, new \in Token : RefreshSession(rt, new)
              \/ \E t \in Token : RevokeSession(t)
<1>1. ASSUME StoreTick PROVE now' \in Int /\ TokensUntouched
  BY <1>1 DEF StoreTick, TokensUntouched
<1>2. ASSUME NEW h, NEW pin, NEW tok, NEW new, RegisterHost(h, pin, tok, new)
      PROVE  now' = now /\ TokensUntouched
  BY <1>2 DEF RegisterHost, TokensUntouched
<1>3. ASSUME NEW h, PairWrong(h) \/ PairRefused(h) PROVE now' = now /\ TokensUntouched
  BY <1>3 DEF PairWrong, PairRefused, TokensUntouched
<1>4. ASSUME NEW t, TouchDevice(t) PROVE now' = now /\ TokensUntouched
  BY <1>4 DEF TouchDevice, TokensUntouched
<1>5. ASSUME NEW h, NEW d, NEW t, PairDevice(h, d, t) PROVE now' = now
  BY <1>5 DEF PairDevice
<1>6. ASSUME NEW rt, NEW new, RefreshSession(rt, new) PROVE now' = now
  BY <1>6 DEF RefreshSession
<1>7. ASSUME NEW t, RevokeSession(t) PROVE now' = now
  BY <1>7 DEF RevokeSession
<1>8. ASSUME GC PROVE now' = now
  BY <1>8 DEF GC
<1> QED BY <1>1, <1>2, <1>3, <1>4, <1>5, <1>6, <1>7, <1>8 DEF StoreNext

\* Pairing: a device without a session gets one, with a refresh token of its
\* own.
LEMMA PairTokens ==
    ASSUME TokenInv, NEW h \in Host, NEW d \in Device, NEW t \in Token, PairDevice(h, d, t)
    PROVE  TokenTypes' /\ OneCredential'
<1> DEFINE s == [device |-> d, host |-> h, expiresAt |-> now + SessionTTL]
<1>1. /\ sessions' = [sessions EXCEPT ![t] = s]
      /\ refresh' = [refresh EXCEPT ![t] = t]
      /\ now' = now
      /\ sessions[t] = None /\ refresh[t] = None
      /\ \A k \in Token : sessions[k] # None => sessions[k].device # d
  BY DEF PairDevice, FreshToken, FreshDevice
<1>2. s \in SessionRecord /\ s # None /\ s.device = d
  BY StoreAssumption, RecordAssumption DEF SessionRecord, TokenInv, TokenTypes
<1> HIDE DEF s
<1>3. t # None
  BY NoneAssumption
<1>4. TokenTypes'
  BY <1>1, <1>2 DEF TokenInv, TokenTypes
<1>5. \A k \in Token : /\ sessions'[k] = IF k = t THEN s ELSE sessions[k]
                       /\ refresh'[k] = IF k = t THEN t ELSE refresh[k]
  BY <1>1 DEF TokenInv, TokenTypes
<1>6. /\ \A k \in Token : refresh[k] # None => sessions[refresh[k]] # None /\ refresh[k] # t
      /\ \A k \in Token : sessions[k] # None => \E r \in Token : r # t /\ refresh[r] = k
  <2>1. \A k \in Token : refresh[k] # None => sessions[refresh[k]] # None /\ refresh[k] # t
    BY <1>1 DEF TokenInv, OneCredential
  <2>2. ASSUME NEW k \in Token, sessions[k] # None PROVE \E r \in Token : r # t /\ refresh[r] = k
    <3>1. PICK r \in Token : refresh[r] = k
      BY <2>2 DEF TokenInv, OneCredential
    <3>2. k # None
      BY NoneAssumption
    <3> QED BY <1>1, <3>1, <3>2
  <2> QED BY <2>1, <2>2
<1>7. ASSUME NEW a \in Token, NEW b \in Token, sessions'[a] # None, sessions'[b] # None,
             sessions'[a].device = sessions'[b].device
      PROVE  a = b
  BY <1>1, <1>2, <1>5, <1>7 DEF TokenInv, OneCredential
<1>8. ASSUME NEW r \in Token, refresh'[r] # None PROVE sessions'[refresh'[r]] # None
  BY <1>2, <1>5, <1>6, <1>8 DEF TokenInv, TokenTypes
<1>9. ASSUME NEW q \in Token, NEW r \in Token, refresh'[q] # None, refresh'[q] = refresh'[r]
      PROVE  q = r
  BY <1>3, <1>5, <1>6, <1>9 DEF TokenInv, OneCredential
<1>10. ASSUME NEW k \in Token, sessions'[k] # None PROVE \E r \in Token : refresh'[r] = k
  <2>1. CASE k = t
    BY <1>5, <2>1
  <2>2. CASE k # t
    BY <1>5, <1>6, <1>10, <2>2
  <2> QED BY <2>1, <2>2
<1> QED BY <1>4, <1>7, <1>8, <1>9, <1>10 DEF OneCredential

\* Rotation: the old pair of tokens goes and the new pair takes its place.
LEMMA RefreshTokens ==
    ASSUME TokenInv, NEW rt \in Token, NEW new \in Token, RefreshSession(rt, new)
    PROVE  TokenTypes' /\ OneCredential'
<1> DEFINE old == refresh[rt]
           s == [sessions[old] EXCEPT !.expiresAt = now + SessionTTL]
<1>1. /\ old \in Token /\ sessions[old] # None /\ new # old
      /\ sessions[new] = None /\ refresh[new] = None
      /\ rt # new
      /\ sessions' = [sessions EXCEPT ![old] = None, ![new] = s]
      /\ refresh' = [refresh EXCEPT ![rt] = None, ![new] = new]
      /\ now' = now
  BY DEF RefreshSession, FreshToken, Rotated, TokenInv, TokenTypes
<1>2. sessions[old] \in SessionRecord
  BY <1>1 DEF TokenInv, TokenTypes
<1>3. s \in SessionRecord /\ s # None /\ s.device = sessions[old].device
  BY <1>2, StoreAssumption, RecordAssumption DEF SessionRecord, TokenInv, TokenTypes
<1>4. refresh[rt] = old
  OBVIOUS
<1> HIDE DEF old, s
<1>5. new # None
  BY NoneAssumption
<1>6. TokenTypes'
  BY <1>1, <1>3 DEF TokenInv, TokenTypes
<1>7. \A k \in Token : /\ sessions'[k] = IF k = old THEN None ELSE IF k = new THEN s ELSE sessions[k]
                       /\ refresh'[k] = IF k = rt THEN None ELSE IF k = new THEN new ELSE refresh[k]
  BY <1>1 DEF TokenInv, TokenTypes
<1>8. OneCredential'
  BY <1>1, <1>3, <1>4, <1>5, <1>7 DEF TokenInv, TokenTypes, OneCredential
<1> QED BY <1>6, <1>8

\* Revocation and GC: a session goes together with its refresh token.
LEMMA WithdrawTokens ==
    ASSUME TokenInv, now' \in Int, NEW T \in SUBSET Token,
           sessions' = [t \in Token |-> IF t \in T THEN None ELSE sessions[t]],
           \A r \in Token : refresh'[r] = IF refresh[r] \in T THEN None ELSE refresh[r],
           refresh' \in [Token -> Token \cup {None}]
    PROVE  TokenTypes' /\ OneCredential'
<1> USE NoneAssumption DEF TokenInv, TokenTypes
<1>1. TokenTypes'
  OBVIOUS
<1>2. OneCredential'
  BY DEF OneCredential
<1> QED BY <1>1, <1>2

\* Every step keeps the token tables consistent.
LEMMA TokenStep ==
    ASSUME TokenInv, StoreNext
    PROVE  TokenInv'
<1>1. now \in Int
  BY DEF TokenInv, TokenTypes
<1>2. CASE TokensUntouched
  BY <1>1, <1>2, TokenCases DEF TokensUntouched, TokenInv, TokenTypes, OneCredential
<1>3. ASSUME NEW t \in Token, RevokeSession(t) PROVE TokenInv'
  <2>1. sessions' = [k \in Token |-> IF k \in {t} THEN None ELSE sessions[k]]
    BY <1>3 DEF RevokeSession, TokenInv, TokenTypes
  <2>2. refresh' \in [Token -> Token \cup {None}]
        /\ \A r \in Token : refresh'[r] = IF refresh[r] \in {t} THEN None ELSE refresh[r]
    BY <1>3 DEF RevokeSession, TokenInv, TokenTypes
  <2> QED BY <1>1, <2>1, <2>2, TokenCases, WithdrawTokens DEF TokenInv
<1>4. ASSUME GC PROVE TokenInv'
  <2> DEFINE T == {t \in Token : Expired(t)}
  <2>1. sessions' = [k \in Token |-> IF k \in T THEN None ELSE sessions[k]]
    BY <1>4 DEF GC
  <2>2. refresh' \in [Token -> Token \cup {None}]
        /\ \A r \in Token : refresh'[r] = IF refresh[r] \in T THEN None ELSE refresh[r]
    BY <1>4, NoneAssumption DEF GC, TokenInv, TokenTypes, OneCredential
  <2> QED BY <1>1, <2>1, <2>2, TokenCases, WithdrawTokens DEF TokenInv
<1>5. ASSUME NEW h \in Host, NEW d \in Device, NEW t \in Token, PairDevice(h, d, t) PROVE TokenInv'
  BY <1>5, PairTokens DEF TokenInv
<1>6. ASSUME NEW rt \in Token, NEW new \in Token, RefreshSession(rt, new) PROVE TokenInv'
  BY <1>6, RefreshTokens DEF TokenInv
<1> QED BY <1>1, <1>2, <1>3, <1>4, <1>5, <1>6, TokenCases

\* The empty store has no token.
LEMMA TokenInit == StoreInit => TokenInv
BY StoreAssumption DEF StoreInit, TokenInv, TokenTypes, OneCredential

\* The token tables stay consistent; OneCredential is inductive with the types.
THEOREM TokenInvariance == StoreSpec => []TokenInv
<1>1. TokenInv /\ UNCHANGED storeVars => TokenInv'
  BY DEF storeVars, TokenInv, TokenTypes, OneCredential
<1> QED BY TokenInit, TokenStep, <1>1, PTL DEF StoreSpec

\* RefreshSession, RevokeSession, PairDevice and GC keep sessions and refresh
\* tokens one to one, and one of each per device.
THEOREM OneCredentialHolds == StoreSpec => []OneCredential
<1>1. TokenInv => OneCredential
  BY DEF TokenInv
<1> QED BY TokenInvariance, <1>1, PTL
-----------------------------------------------------------------------------
(* The refinement. *)

\* The empty store honours no token.
LEMMA HolderInit == StoreInit => C!Init
BY DEF StoreInit, holder, C!Init

\* Each step of the store is an issue, a rotation or a withdrawal of tokens, or
\* changes no token.
LEMMA HolderStep ==
    ASSUME TokenInv, StoreNext
    PROVE  [C!Next]_holder
<1> USE DEF TokenInv, TokenTypes
<1>0. \A t \in Token : /\ (holder[t] = None) = (sessions[t] = None)
                       /\ sessions[t] # None => holder[t] = sessions[t].device /\ holder[t] \in Device
  BY NoneAssumption DEF holder, SessionRecord
<1>1. CASE TokensUntouched
  BY <1>1 DEF TokensUntouched, holder
<1>2. ASSUME GC PROVE C!Next
  <2>1. holder' = [t \in Token |-> IF t \in {k \in Token : Expired(k)} THEN None ELSE holder[t]]
    BY <1>2 DEF GC, holder
  <2> QED BY <2>1 DEF C!Next, C!Withdraw
<1>3. ASSUME NEW t \in Token, RevokeSession(t) PROVE C!Next
  <2>1. holder' = [k \in Token |-> IF k \in {t} THEN None ELSE holder[k]]
    BY <1>3 DEF RevokeSession, holder
  <2> QED BY <2>1 DEF C!Next, C!Withdraw
<1>4. ASSUME NEW h \in Host, NEW d \in Device, NEW t \in Token, PairDevice(h, d, t) PROVE C!Next
  <2>1. C!TokenLess(d) /\ C!Unused(t)
    BY <1>0, <1>4, NoneAssumption DEF PairDevice, FreshDevice, FreshToken, C!TokenLess, C!Unused
  <2>2. holder' = [holder EXCEPT ![t] = d]
    <3> DEFINE s == [device |-> d, host |-> h, expiresAt |-> now + SessionTTL]
    <3>1. sessions' = [sessions EXCEPT ![t] = s]
      BY <1>4 DEF PairDevice
    <3>2. s # None /\ s.device = d
      BY StoreAssumption, RecordAssumption DEF SessionRecord
    <3> HIDE DEF s
    <3> QED BY <3>1, <3>2 DEF holder
  <2> QED BY <2>1, <2>2 DEF C!Next, C!Issue
<1>5. ASSUME NEW rt \in Token, NEW new \in Token, RefreshSession(rt, new) PROVE C!Next
  <2> DEFINE old == refresh[rt]
             s == [sessions[old] EXCEPT !.expiresAt = now + SessionTTL]
  <2>1. /\ old \in Token /\ sessions[old] # None /\ sessions[new] = None /\ new # old
        /\ sessions' = [sessions EXCEPT ![old] = None, ![new] = s]
    BY <1>5 DEF RefreshSession, FreshToken, Rotated
  <2>2. sessions[old] \in SessionRecord
    BY <2>1
  <2>3. s # None /\ s.device = sessions[old].device
    BY <2>2, StoreAssumption, RecordAssumption DEF SessionRecord
  <2> HIDE DEF s, old
  <2>4. holder' = [holder EXCEPT ![old] = None, ![new] = holder[old]]
    BY <2>1, <2>3 DEF holder
  <2> QED BY <1>0, <2>1, <2>4 DEF C!Next, C!Rotate, C!Unused
<1>6. now \in Int
  OBVIOUS
<1> QED BY <1>1, <1>2, <1>3, <1>4, <1>5, <1>6, TokenCases

\* The store implements the abstract credentials: no interleaving of its methods
\* moves a token to another device or brings a withdrawn one back.
THEOREM CredentialsImplemented == StoreSpec => ImplementsCredentials
<1>1. TokenInv /\ [StoreNext]_storeVars => [C!Next]_holder
  <2>1. UNCHANGED storeVars => UNCHANGED holder
    BY DEF storeVars, holder
  <2> QED BY HolderStep, <2>1
<1> QED BY HolderInit, TokenInvariance, <1>1, PTL DEF StoreSpec, ImplementsCredentials, C!Spec
-----------------------------------------------------------------------------
(* Hosts, PINs and devices. *)

\* A ticket is short-lived, and one that has taken all its wrong guesses is
\* outlived by the lock.
TicketBounded(r) == r.pair # None =>
    /\ r.pair.expiresAt <= now + PinTTL
    /\ r.pair.failCount >= PinMaxFailures => r.lockedUntil > r.pair.expiresAt

TicketsBounded == \A h \in Host : hosts[h] # None => TicketBounded(hosts[h])

\* The inductive invariant of hosts, PINs and devices.  SpentTicketDead is not
\* inductive: it needs the lock to be set beyond the end of the ticket.
StoreInv == StoreTypeOK /\ TicketsBounded /\ TablesAgree

\* A record as a method that does not let time pass may leave it: well typed,
\* with the same devices, and not unlocked.
Successor(r, q) ==
    /\ q \in HostRecord
    /\ TicketBounded(q)
    /\ q.devices = r.devices
    /\ q.lockedUntil >= r.lockedUntil

\* Setting or keeping a PIN at a registration.
LEMMA PinFieldsRecord ==
    ASSUME now \in Nat, NEW r \in HostRecord, TicketBounded(r), NEW pin \in FixedPin \cup {None}
    PROVE  Successor(r, PinFields(r, pin))
<1> USE StoreAssumption
<1>1. FreshTicket \in Ticket /\ FreshTicket.expiresAt = now + PinTTL /\ FreshTicket.failCount = 0
  BY DEF FreshTicket, Ticket
<1>2. r.lockedUntil \in Int
  BY DEF HostRecord
<1>3. CASE pin # None
  <2>1. PinFields(r, pin) = [r EXCEPT !.fixedPin = pin, !.pair = None]
    BY <1>3 DEF PinFields
  <2>2. [r EXCEPT !.fixedPin = pin, !.pair = None] \in HostRecord
    BY DEF HostRecord
  <2>3. TicketBounded([r EXCEPT !.fixedPin = pin, !.pair = None])
    BY DEF HostRecord, TicketBounded
  <2> QED BY <1>2, <2>1, <2>2, <2>3 DEF Successor, HostRecord
<1>4. CASE pin = None /\ r.fixedPin # None
  <2>1. PinFields(r, pin) = r
    BY <1>4 DEF PinFields
  <2> QED BY <1>2, <2>1 DEF Successor
<1>5. CASE pin = None /\ r.fixedPin = None
  <2>1. PinFields(r, pin) = [r EXCEPT !.pair = FreshTicket]
    BY <1>5 DEF PinFields
  <2> HIDE DEF FreshTicket
  <2>2. [r EXCEPT !.pair = FreshTicket] \in HostRecord
    BY <1>1 DEF HostRecord
  <2>3. TicketBounded([r EXCEPT !.pair = FreshTicket])
    BY <1>1 DEF HostRecord, TicketBounded
  <2> QED BY <1>2, <2>1, <2>2, <2>3 DEF Successor, HostRecord
<1> QED BY <1>3, <1>4, <1>5

\* A wrong guess is counted, and the last one locks the host.
LEMMA WrongPinRecord ==
    ASSUME now \in Nat, NEW r \in HostRecord, TicketBounded(r), PinAccepting(r)
    PROVE  Successor(r, WrongPin(r))
<1> USE StoreAssumption, NoneAssumption
<1>1. r.lockedUntil \in Int /\ r.lockedUntil <= now /\ r.pinFails \in 0..(PinMaxFailures - 1)
  BY DEF HostRecord, PinAccepting
<1>2. CASE r.fixedPin # None
  <2>1. CASE r.pinFails + 1 >= PinMaxFailures
    <3>1. WrongPin(r) = [r EXCEPT !.pinFails = 0, !.lockedUntil = now + PinLockDuration]
      BY <1>2, <2>1 DEF WrongPin, FixedLock, LockTime
    <3> DEFINE q == [r EXCEPT !.pinFails = 0, !.lockedUntil = now + PinLockDuration]
    <3>0. now + PinLockDuration \in Int /\ 0 \in 0..(PinMaxFailures - 1)
      OBVIOUS
    <3>2. q \in HostRecord /\ q.lockedUntil = now + PinLockDuration
          /\ q.pair = r.pair /\ q.devices = r.devices
      BY <3>0, Zenon DEF HostRecord
    <3>3. r.pair # None => r.pair.expiresAt \in Int
      BY DEF HostRecord, Ticket
    <3>4. TicketBounded(q)
      BY <3>2, <3>3 DEF TicketBounded
    <3> QED BY <1>1, <3>1, <3>2, <3>4 DEF Successor
  <2>2. CASE ~(r.pinFails + 1 >= PinMaxFailures)
    <3>1. WrongPin(r) = [r EXCEPT !.pinFails = @ + 1]
      BY <1>2, <2>2 DEF WrongPin
    <3> QED BY <1>1, <2>2, <3>1 DEF Successor, TicketBounded, HostRecord, Ticket
  <2> QED BY <2>1, <2>2
<1>3. CASE r.fixedPin = None
  <2>1. r.pair \in Ticket /\ r.pair # None /\ now <= r.pair.expiresAt
    BY <1>3 DEF PinAccepting, HostRecord
  <2>2. r.pair.failCount \in 0..PinMaxFailures /\ r.pair.expiresAt \in Int
    BY <2>1 DEF Ticket
  <2>3. r.pair.failCount < PinMaxFailures /\ r.pair.expiresAt <= now + PinTTL
    BY <1>1, <2>1, <2>2 DEF TicketBounded
  <2> DEFINE lock == IF r.pair.failCount + 1 >= PinMaxFailures THEN now + PinLockDuration
                                                               ELSE r.lockedUntil
             p == [r.pair EXCEPT !.failCount = @ + 1]
  <2>4. p \in Ticket /\ p.expiresAt = r.pair.expiresAt /\ p.failCount = r.pair.failCount + 1
    BY <2>1, <2>2, <2>3 DEF Ticket
  <2>5. lock \in Int /\ lock >= r.lockedUntil /\ (p.failCount >= PinMaxFailures => lock > p.expiresAt)
    BY <1>1, <2>2, <2>3, <2>4
  <2>6. WrongPin(r) = [r EXCEPT !.pair = p, !.lockedUntil = lock]
    BY <1>3 DEF WrongPin, LockTime, HostRecord
  <2> HIDE DEF p, lock
  <2>7. [r EXCEPT !.pair = p, !.lockedUntil = lock] \in HostRecord
    BY <2>4, <2>5 DEF HostRecord
  <2> QED BY <2>3, <2>4, <2>5, <2>6, <2>7 DEF Successor, TicketBounded, HostRecord
<1> QED BY <1>2, <1>3

\* The right PIN spends a ticket or clears the count of the fixed PIN.
LEMMA RightPinRecord ==
    ASSUME now \in Nat, NEW r \in HostRecord, TicketBounded(r), PinAccepting(r)
    PROVE  Successor(r, RightPin(r))
<1> USE StoreAssumption, NoneAssumption
<1>1. r.lockedUntil \in Int
  BY DEF HostRecord
<1>2. CASE r.fixedPin # None
  <2>1. RightPin(r) = [r EXCEPT !.pinFails = 0]
    BY <1>2 DEF RightPin
  <2> QED BY <1>1, <2>1 DEF Successor, TicketBounded, HostRecord, Ticket
<1>3. CASE r.fixedPin = None
  <2> DEFINE p == [r.pair EXCEPT !.used = TRUE]
  <2>1. r.pair \in Ticket /\ r.pair # None
    BY <1>3 DEF PinAccepting, HostRecord
  <2>2. p \in Ticket /\ p.expiresAt = r.pair.expiresAt /\ p.failCount = r.pair.failCount
    BY <2>1 DEF Ticket
  <2>3. RightPin(r) = [r EXCEPT !.pair = p]
    BY <1>3 DEF RightPin, HostRecord
  <2> HIDE DEF p
  <2>4. [r EXCEPT !.pair = p] \in HostRecord
    BY <2>2 DEF HostRecord
  <2> QED BY <1>1, <2>1, <2>2, <2>3, <2>4 DEF Successor, TicketBounded, HostRecord
<1> QED BY <1>2, <1>3

\* A step that changes the record of one host only, by a method of the pairing.
LEMMA OneHostStep ==
    ASSUME StoreInv, NEW h \in Host, hosts[h] # None, NEW q, Successor(hosts[h], q),
           hosts' = [hosts EXCEPT ![h] = q], UNCHANGED <<now, devices, sessions, refresh>>,
           hostByToken' \in [HostToken -> Host \cup {None}]
    PROVE  StoreInv'
<1> USE RecordAssumption
<1>1. q \in HostRecord /\ q # None /\ q.devices = hosts[h].devices /\ TicketBounded(q)
  BY DEF Successor
<1>2. \A k \in Host : hosts'[k] = IF k = h THEN q ELSE hosts[k]
  BY DEF StoreInv, StoreTypeOK
<1>3. StoreTypeOK'
  BY <1>1 DEF StoreInv, StoreTypeOK
<1>4. TicketsBounded'
  BY <1>1, <1>2 DEF StoreInv, TicketsBounded, TicketBounded
<1>5. TablesAgree'
  BY <1>1, <1>2 DEF StoreInv, StoreTypeOK, TablesAgree, DeviceRecord
<1> QED BY <1>3, <1>4, <1>5 DEF StoreInv

\* RegisterHost: a new host has no device, a known one keeps its own.
LEMMA RegisterStep ==
    ASSUME StoreInv, NEW h \in Host, NEW pin \in FixedPin \cup {None},
           NEW tok, NEW new \in HostToken, RegisterHost(h, pin, tok, new)
    PROVE  StoreInv'
<1> USE StoreAssumption, RecordAssumption
<1> DEFINE r == IF hosts[h] = None THEN NewHost(new)
                ELSE [hosts[h] EXCEPT !.tokenHash = new, !.lastSeen = now]
<1>1. /\ hosts' = [hosts EXCEPT ![h] = PinFields(r, pin)]
      /\ hostByToken' = [hostByToken EXCEPT ![new] = h]
      /\ UNCHANGED <<now, devices, sessions, refresh>>
  BY DEF RegisterHost
<1>2. now \in Nat /\ hosts[h] \in HostRecord \cup {None}
  BY DEF StoreInv, StoreTypeOK
<1>3. hostByToken' \in [HostToken -> Host \cup {None}]
  BY <1>1 DEF StoreInv, StoreTypeOK
<1>4. CASE hosts[h] # None
  <2>1. hosts[h] \in HostRecord /\ TicketBounded(hosts[h])
    BY <1>2, <1>4 DEF StoreInv, TicketsBounded
  <2>2. r \in HostRecord /\ TicketBounded(r) /\ r.devices = hosts[h].devices
        /\ r.lockedUntil = hosts[h].lockedUntil
    <3>1. r = [hosts[h] EXCEPT !.tokenHash = new, !.lastSeen = now]
      BY <1>4
    <3> HIDE DEF r
    <3>2. /\ r \in HostRecord /\ r.devices = hosts[h].devices
          /\ r.lockedUntil = hosts[h].lockedUntil /\ r.pair = hosts[h].pair
      <4>1. now \in Int
        BY <1>2
      <4> QED BY <2>1, <3>1, <4>1 DEF HostRecord
    <3> QED BY <2>1, <3>2 DEF TicketBounded
  <2> HIDE DEF r
  <2>3. Successor(r, PinFields(r, pin))
    BY <1>2, <2>2, PinFieldsRecord
  <2>4. Successor(hosts[h], PinFields(r, pin))
    BY <2>2, <2>3 DEF Successor
  <2> QED BY <1>1, <1>3, <1>4, <2>4, OneHostStep
<1>5. CASE hosts[h] = None
  <2>1. r = NewHost(new)
    BY <1>5
  <2>2. r \in HostRecord /\ TicketBounded(r) /\ r.devices = {}
    <3>1. 0 \in 0..(PinMaxFailures - 1) /\ 0 \in Int /\ now \in Int
      BY <1>2
    <3> QED BY <2>1, <3>1 DEF NewHost, HostRecord, TicketBounded
  <2> HIDE DEF r
  <2> DEFINE q == PinFields(r, pin)
  <2>3. Successor(r, q)
    BY <1>2, <2>2, PinFieldsRecord
  <2>4. q \in HostRecord /\ q # None /\ q.devices = {} /\ TicketBounded(q)
    BY <2>2, <2>3 DEF Successor
  <2> HIDE DEF q
  <2>5. \A k \in Host : hosts'[k] = IF k = h THEN q ELSE hosts[k]
    BY <1>1 DEF StoreInv, StoreTypeOK, q
  <2>6. hosts' = [hosts EXCEPT ![h] = q]
    BY <1>1 DEF q
  <2>7. StoreTypeOK'
    BY <1>1, <1>3, <2>4, <2>6 DEF StoreInv, StoreTypeOK
  <2>8. TicketsBounded'
    BY <1>1, <2>4, <2>5 DEF StoreInv, TicketsBounded, TicketBounded
  <2>9. TablesAgree'
    BY <1>1, <1>5, <2>4, <2>5 DEF StoreInv, StoreTypeOK, TablesAgree, DeviceRecord
  <2> QED BY <2>7, <2>8, <2>9 DEF StoreInv
<1> QED BY <1>4, <1>5

\* PairDevice with a wrong PIN, or with the right one and no room for a device.
LEMMA PairFailsStep ==
    ASSUME StoreInv, NEW h \in Host, PairWrong(h) \/ PairRefused(h)
    PROVE  StoreInv'
<1>1. now \in Nat /\ hosts[h] \in HostRecord /\ hosts[h] # None
      /\ TicketBounded(hosts[h]) /\ PinAccepting(hosts[h])
  BY DEF StoreInv, StoreTypeOK, TicketsBounded, PairWrong, PairRefused, PinAccepting
<1>2. hostByToken' \in [HostToken -> Host \cup {None}] /\ UNCHANGED <<now, devices, sessions, refresh>>
  BY DEF StoreInv, StoreTypeOK, PairWrong, PairRefused
<1>3. CASE PairWrong(h)
  BY <1>1, <1>2, <1>3, WrongPinRecord, OneHostStep DEF PairWrong
<1>4. CASE PairRefused(h)
  BY <1>1, <1>2, <1>4, RightPinRecord, OneHostStep DEF PairRefused
<1> QED BY <1>3, <1>4

\* PairDevice: the device enters both tables.
LEMMA PairStep ==
    ASSUME StoreInv, NEW h \in Host, NEW d \in Device, NEW t \in Token, PairDevice(h, d, t)
    PROVE  StoreInv'
<1> USE StoreAssumption, RecordAssumption
<1> DEFINE r == RightPin(hosts[h])
           q == [r EXCEPT !.devices = @ \cup {d}]
           v == [host |-> h, createdAt |-> now, lastSeen |-> 0]
           s == [device |-> d, host |-> h, expiresAt |-> now + SessionTTL]
<1>1. now \in Nat /\ hosts[h] \in HostRecord /\ hosts[h] # None
      /\ TicketBounded(hosts[h]) /\ PinAccepting(hosts[h])
  BY DEF StoreInv, StoreTypeOK, TicketsBounded, PairDevice, PinAccepting
<1>2. Successor(hosts[h], r)
  BY <1>1, RightPinRecord
<1>3. /\ hosts' = [hosts EXCEPT ![h] = q]
      /\ devices' = [devices EXCEPT ![d] = v]
      /\ sessions' = [sessions EXCEPT ![t] = s]
      /\ refresh' = [refresh EXCEPT ![t] = t]
      /\ UNCHANGED <<now, hostByToken>>
      /\ devices[d] = None
  <2>1. hosts' = [hosts EXCEPT ![h] = q]
    BY Zenon DEF PairDevice
  <2>2. devices' = [devices EXCEPT ![d] = v] /\ sessions' = [sessions EXCEPT ![t] = s]
    BY Zenon DEF PairDevice
  <2> QED BY <2>1, <2>2 DEF PairDevice, FreshDevice
<1>4. v \in DeviceRecord /\ v # None /\ v.host = h
  BY <1>1 DEF DeviceRecord
<1>5. s \in SessionRecord
  BY <1>1 DEF SessionRecord
<1> HIDE DEF r, v, s
<1>6. /\ q \in HostRecord /\ q # None
      /\ q.devices = hosts[h].devices \cup {d}
      /\ q.pair = r.pair /\ q.lockedUntil = r.lockedUntil
  BY <1>2 DEF Successor, HostRecord
<1>7. TicketBounded(q)
  BY <1>2, <1>6 DEF Successor, TicketBounded
<1> HIDE DEF q
<1>8. StoreTypeOK'
  BY <1>3, <1>4, <1>5, <1>6 DEF StoreInv, StoreTypeOK
<1>9. /\ \A k \in Host : hosts'[k] = IF k = h THEN q ELSE hosts[k]
      /\ \A k \in Device : devices'[k] = IF k = d THEN v ELSE devices[k]
  BY <1>3 DEF StoreInv, StoreTypeOK
<1>10. TicketsBounded'
  BY <1>3, <1>7, <1>9 DEF StoreInv, TicketsBounded, TicketBounded
<1>11. TablesAgree'
  <2>1. ASSUME NEW k \in Host, hosts'[k] # None, NEW e \in hosts'[k].devices
        PROVE  devices'[e] # None /\ devices'[e].host = k
    <3>1. e \in Device /\ ((k = h /\ e = d) \/ (e \in hosts[k].devices /\ hosts[k] # None))
      BY <1>1, <1>6, <1>9, <2>1 DEF HostRecord, StoreInv, StoreTypeOK
    <3> QED BY <1>3, <1>4, <1>9, <3>1 DEF StoreInv, TablesAgree
  <2>2. ASSUME NEW e \in Device, devices'[e] # None
        PROVE  hosts'[devices'[e].host] # None /\ e \in hosts'[devices'[e].host].devices
    <3>1. CASE e = d
      BY <1>4, <1>6, <1>9, <3>1
    <3>2. CASE e # d
      <4>1. devices'[e] = devices[e] /\ devices[e].host \in Host
        BY <1>9, <2>2, <3>2 DEF StoreInv, StoreTypeOK, DeviceRecord
      <4>2. hosts[devices[e].host] # None /\ e \in hosts[devices[e].host].devices
        BY <2>2, <4>1 DEF StoreInv, TablesAgree
      <4> QED BY <1>6, <1>9, <4>1, <4>2
    <3> QED BY <3>1, <3>2
  <2> QED BY <2>1, <2>2 DEF TablesAgree
<1> QED BY <1>8, <1>10, <1>11 DEF StoreInv

\* Steps that change tokens or the date of a device, and leave every host and
\* the host of every device alone.
LEMMA TokenStepsKeepStore ==
    ASSUME StoreInv,
           \/ \E rt \in Token, new \in Token : RefreshSession(rt, new)
           \/ \E t \in Token : RevokeSession(t) \/ TouchDevice(t)
    PROVE  StoreInv'
<1> USE StoreAssumption, RecordAssumption
<1>1. ASSUME NEW rt \in Token, NEW new \in Token, RefreshSession(rt, new) PROVE StoreInv'
  <2> DEFINE s == [sessions[refresh[rt]] EXCEPT !.expiresAt = now + SessionTTL]
  <2>1. UNCHANGED <<now, hosts, hostByToken, devices>>
    BY <1>1 DEF RefreshSession
  <2>2. sessions[refresh[rt]] \in SessionRecord /\ now \in Nat
    BY <1>1 DEF RefreshSession, StoreInv, StoreTypeOK
  <2>3. s \in SessionRecord
    BY <2>2 DEF SessionRecord
  <2>4. sessions' = [sessions EXCEPT ![refresh[rt]] = None, ![new] = s]
        /\ refresh' = [refresh EXCEPT ![rt] = None, ![new] = new]
    BY <1>1 DEF RefreshSession, Rotated
  <2> HIDE DEF s
  <2>5. StoreTypeOK'
    BY <2>1, <2>3, <2>4 DEF StoreInv, StoreTypeOK
  <2> QED BY <2>1, <2>5 DEF StoreInv, TicketsBounded, TicketBounded, TablesAgree
<1>2. ASSUME NEW t \in Token, RevokeSession(t) PROVE StoreInv'
  <2>1. StoreTypeOK' /\ UNCHANGED <<now, hosts, devices>>
    BY <1>2 DEF RevokeSession, StoreInv, StoreTypeOK
  <2> QED BY <2>1 DEF StoreInv, TicketsBounded, TicketBounded, TablesAgree
<1>3. ASSUME NEW t \in Token, TouchDevice(t) PROVE StoreInv'
  <2> DEFINE d == sessions[t].device
             v == [devices[d] EXCEPT !.lastSeen = now]
  <2>1. d \in Device /\ devices[d] \in DeviceRecord /\ now \in Nat
    BY <1>3 DEF TouchDevice, Valid, StoreInv, StoreTypeOK, SessionRecord
  <2>2. v \in DeviceRecord /\ v # None /\ v.host = devices[d].host
    BY <2>1 DEF DeviceRecord
  <2>3. devices' = [devices EXCEPT ![d] = v] /\ UNCHANGED <<now, hosts, hostByToken, sessions, refresh>>
    BY <1>3 DEF TouchDevice
  <2> HIDE DEF v, d
  <2>4. StoreTypeOK'
    BY <2>1, <2>2, <2>3 DEF StoreInv, StoreTypeOK
  <2>5. \A e \in Device : /\ devices[e] # None <=> devices'[e] # None
                          /\ devices'[e].host = devices[e].host
    BY <2>1, <2>2, <2>3 DEF StoreInv, StoreTypeOK
  <2>6. \A h \in Host : hosts[h] # None => hosts[h].devices \subseteq Device
    BY DEF StoreInv, StoreTypeOK, HostRecord
  <2>7. TablesAgree'
    BY <2>3, <2>5, <2>6 DEF StoreInv, TablesAgree
  <2> QED BY <2>3, <2>4, <2>7 DEF StoreInv, TicketsBounded, TicketBounded
<1> QED BY <1>1, <1>2, <1>3

\* GC: a device leaves both tables, and only hosts without devices go.
LEMMA GCStep == ASSUME StoreInv, GC PROVE StoreInv'
<1> USE RecordAssumption
<1>1. now' = now /\ hostByToken' = hostByToken
  BY DEF GC
<1>2. /\ sessions' \in [Token -> SessionRecord \cup {None}]
      /\ refresh' \in [Token -> Token \cup {None}]
      /\ devices' \in [Device -> DeviceRecord \cup {None}]
  BY DEF GC, StoreInv, StoreTypeOK
<1> DEFINE r(h) == [hosts[h] EXCEPT !.devices = KeptDevices(h)]
<1>3. ASSUME NEW h \in Host, hosts[h] # None
      PROVE  /\ r(h) \in HostRecord /\ r(h) # None
             /\ r(h).devices = KeptDevices(h)
             /\ r(h).pair = hosts[h].pair /\ r(h).lockedUntil = hosts[h].lockedUntil
  <2>1. hosts[h] \in HostRecord /\ KeptDevices(h) \in SUBSET Device
    BY <1>3 DEF StoreInv, StoreTypeOK, HostRecord, KeptDevices
  <2> QED BY <2>1 DEF HostRecord
<1>4. hosts' = [h \in Host |-> IF hosts[h] = None \/ DeadHost(h) THEN None ELSE r(h)]
  BY DEF GC
<1> HIDE DEF r
<1>5. StoreTypeOK'
  <2>1. hosts' \in [Host -> HostRecord \cup {None}]
    BY <1>3, <1>4
  <2> QED BY <1>1, <1>2, <2>1 DEF StoreInv, StoreTypeOK
<1>6. TicketsBounded'
  BY <1>1, <1>3, <1>4 DEF StoreInv, TicketsBounded, TicketBounded
<1>7. TablesAgree'
  <2>1. \A d \in Device : devices'[d] = IF StaleDevice(d) THEN None ELSE devices[d]
    BY DEF GC
  <2>2. ASSUME NEW h \in Host, hosts'[h] # None, NEW d \in hosts'[h].devices
        PROVE  devices'[d] # None /\ devices'[d].host = h
    <3>1. hosts[h] # None /\ d \in hosts[h].devices /\ ~StaleDevice(d)
      BY <1>3, <1>4, <2>2 DEF KeptDevices
    <3>2. d \in Device
      BY <3>1 DEF StoreInv, StoreTypeOK, HostRecord
    <3> QED BY <2>1, <3>1, <3>2 DEF StoreInv, TablesAgree
  <2>3. ASSUME NEW d \in Device, devices'[d] # None
        PROVE  hosts'[devices'[d].host] # None /\ d \in hosts'[devices'[d].host].devices
    <3>1. devices[d] # None /\ devices'[d] = devices[d] /\ ~StaleDevice(d)
      BY <2>1, <2>3
    <3>2. devices[d].host \in Host
      BY <3>1 DEF StoreInv, StoreTypeOK, DeviceRecord
    <3>3. hosts[devices[d].host] # None /\ d \in KeptDevices(devices[d].host)
      BY <3>1 DEF StoreInv, TablesAgree, KeptDevices
    <3>4. ~DeadHost(devices[d].host)
      BY <3>3 DEF DeadHost
    <3> QED BY <1>3, <1>4, <3>1, <3>2, <3>3, <3>4
  <2> QED BY <2>2, <2>3 DEF TablesAgree
<1> QED BY <1>5, <1>6, <1>7 DEF StoreInv

\* Time passes: tickets only come nearer to their ends.
LEMMA TickStep == ASSUME StoreInv, StoreTick PROVE StoreInv'
<1>1. now \in Nat /\ now' = now + 1 /\ UNCHANGED <<hosts, hostByToken, devices, sessions, refresh>>
  BY DEF StoreInv, StoreTypeOK, StoreTick
<1>2. StoreTypeOK' /\ TablesAgree'
  BY <1>1 DEF StoreInv, StoreTypeOK, TablesAgree
<1>3. ASSUME NEW h \in Host, hosts'[h] # None PROVE TicketBounded(hosts[h])'
  <2>1. TicketBounded(hosts[h]) /\ hosts'[h] = hosts[h] /\ hosts[h] \in HostRecord
    BY <1>1, <1>3 DEF StoreInv, TicketsBounded, StoreTypeOK
  <2>2. hosts[h].pair # None => hosts[h].pair.expiresAt \in Int
    BY <2>1 DEF HostRecord, Ticket
  <2> QED BY <1>1, <2>1, <2>2, StoreAssumption DEF TicketBounded
<1> QED BY <1>2, <1>3 DEF StoreInv, TicketsBounded

\* The empty store is consistent.
LEMMA InitStored == StoreInit => StoreInv
BY StoreAssumption DEF StoreInit, StoreInv, StoreTypeOK, TicketsBounded, TablesAgree

\* The inductive invariant of hosts, PINs and devices.
THEOREM StoreInvariance == StoreSpec => []StoreInv
<1>1. ASSUME StoreInv, StoreNext PROVE StoreInv'
  BY <1>1, RegisterStep, PairFailsStep, PairStep, TokenStepsKeepStore, GCStep, TickStep DEF StoreNext
<1>2. StoreInv /\ UNCHANGED storeVars => StoreInv'
  BY DEF storeVars, StoreInv, StoreTypeOK, TicketsBounded, TicketBounded, TablesAgree
<1> QED BY InitStored, <1>1, <1>2, PTL DEF StoreSpec

\* Type correctness, with the bounds of both counters of wrong PINs.
THEOREM TypeCorrect == StoreSpec => []StoreTypeOK
<1>1. StoreInv => StoreTypeOK
  BY DEF StoreInv
<1> QED BY StoreInvariance, <1>1, PTL

\* Store.devices and Host.Devices describe one relation.
THEOREM TablesCorrect == StoreSpec => []TablesAgree
<1>1. StoreInv => TablesAgree
  BY DEF StoreInv
<1> QED BY StoreInvariance, <1>1, PTL

\* A ticket that took PinMaxFailures wrong guesses is never compared with a
\* guess again, for any durations with PinTTL < PinLockDuration.
THEOREM SpentTicketsDead == StoreSpec => []SpentTicketDead
<1>1. StoreInv => SpentTicketDead
  <2> SUFFICES ASSUME StoreInv, NEW h \in Host, hosts[h] # None, hosts[h].fixedPin = None,
                      hosts[h].pair # None, hosts[h].pair.failCount >= PinMaxFailures,
                      PinAccepting(hosts[h])
               PROVE  FALSE
    BY DEF SpentTicketDead
  <2>1. hosts[h] \in HostRecord /\ TicketBounded(hosts[h]) /\ now \in Nat
    BY DEF StoreInv, StoreTypeOK, TicketsBounded
  <2>2. hosts[h].lockedUntil \in Int /\ hosts[h].pair.expiresAt \in Int
    BY <2>1 DEF HostRecord, Ticket
  <2> QED BY <2>1, <2>2 DEF TicketBounded, PinAccepting
<1> QED BY StoreInvariance, <1>1, PTL

\* No method lifts the lock of a host: PairDevice does not get past it, and
\* RegisterHost, the one other writer of the record besides GC, keeps it.
THEOREM LocksKept == StoreSpec => LockKept
<1> DEFINE Kept == \A h \in Host : hosts[h] # None /\ hosts'[h] # None /\ hosts[h].lockedUntil > now
                     => hosts'[h].lockedUntil >= hosts[h].lockedUntil
<1>1. ASSUME StoreInv, StoreNext PROVE Kept
  <2> USE <1>1
  <2> SUFFICES ASSUME NEW k \in Host, hosts[k] # None, hosts'[k] # None, hosts[k].lockedUntil > now
               PROVE  hosts'[k].lockedUntil >= hosts[k].lockedUntil
    OBVIOUS
  <2>1. hosts[k] \in HostRecord /\ hosts[k].lockedUntil \in Int /\ TicketBounded(hosts[k]) /\ now \in Nat
    BY DEF StoreInv, StoreTypeOK, HostRecord, TicketsBounded
  <2>2. ~PinAccepting(hosts[k])
    BY <2>1 DEF PinAccepting
  <2>3. CASE hosts'[k] = hosts[k]
    BY <2>1, <2>3
  <2>4. ASSUME NEW h \in Host, NEW pin \in FixedPin \cup {None}, NEW tok, NEW new \in HostToken,
               RegisterHost(h, pin, tok, new), hosts'[k] # hosts[k]
        PROVE  hosts'[k].lockedUntil >= hosts[k].lockedUntil
    <3> DEFINE r == [hosts[k] EXCEPT !.tokenHash = new, !.lastSeen = now]
    <3>1. hosts'[k] = PinFields(r, pin)
      BY <2>4 DEF RegisterHost, StoreInv, StoreTypeOK
    <3>2. /\ r \in HostRecord /\ r.pair = hosts[k].pair
          /\ r.lockedUntil = hosts[k].lockedUntil
      <4>1. now \in Int
        BY <2>1
      <4> QED BY <2>1, <4>1 DEF HostRecord
    <3> HIDE DEF r
    <3>3. TicketBounded(r)
      BY <2>1, <3>2 DEF TicketBounded
    <3> QED BY <2>1, <3>1, <3>2, <3>3, PinFieldsRecord DEF Successor
  <2>5. ASSUME NEW h \in Host, PairWrong(h) \/ PairRefused(h) \/ \E d \in Device, t \in Token : PairDevice(h, d, t)
        PROVE  hosts'[k] = hosts[k]
    <3>1. h # k
      BY <2>2, <2>5 DEF PairWrong, PairRefused, PairDevice
    <3> QED BY <2>5, <3>1 DEF PairWrong, PairRefused, PairDevice, StoreInv, StoreTypeOK
  <2>6. ASSUME GC PROVE hosts'[k].lockedUntil >= hosts[k].lockedUntil
    <3>1. hosts'[k] = [hosts[k] EXCEPT !.devices = KeptDevices(k)]
      BY <2>6 DEF GC
    <3> QED BY <2>1, <3>1 DEF HostRecord
  <2>7. ASSUME StoreTick \/ (\E rt, new \in Token : RefreshSession(rt, new))
               \/ \E t \in Token : RevokeSession(t) \/ TouchDevice(t)
        PROVE  hosts'[k] = hosts[k]
    BY <2>7 DEF StoreTick, RefreshSession, RevokeSession, TouchDevice
  <2> QED BY <2>3, <2>4, <2>5, <2>6, <2>7 DEF StoreNext
<1>2. ASSUME StoreInv, UNCHANGED storeVars PROVE [Kept]_storeVars
  BY <1>2
<1>3. StoreInv /\ [StoreNext]_storeVars => [Kept]_storeVars
  BY <1>1, <1>2
<1> QED BY StoreInvariance, <1>3, PTL DEF StoreSpec, LockKept
=============================================================================
