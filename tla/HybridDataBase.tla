---------------------------- MODULE HybridDataBase ----------------------------
(***************************************************************************)
(* HybridDataBase: one signature hash and one address space for stored     *)
(* records and for the vertices of compute engines.  The stored backend is *)
(* the SignatureStore that HVDataBase implements.  A push stores first and *)
(* takes its logical address afterwards, under another lock, so records of *)
(* two threads get their addresses in either order, and an exception in    *)
(* between leaves a record that has none.                                  *)
(*                                                                         *)
(* A signature is a set of node numbers.  An engine names its own nodes    *)
(* from zero; a higher number is a boundary generator and stays.           *)
(***************************************************************************)
EXTENDS LogicalAddresses, FiniteSets

CONSTANTS
  Threads,
  Signatures,       \* the signatures that threads push
  Engines,          \* the kinds of engine
  NodeCount,        \* their nodes
  Capacity,         \* their vertex addresses
  LocalSigma,       \* the signature at each local address
  Offsets,          \* the node offsets engines are registered with
  MaxIndex,         \* numeric_limits<Index>::max()
  MaxAddress,       \* numeric_limits<Address>::max()
  MaxRecords,       \* bound: records of the stored backend
  MaxEngines,       \* bound: registered engines
  MaxOrphans        \* bound: orphans when a registration adds one

\* What the constants satisfy.  No vertex has an empty signature: that is how read()
\* reports an erased one, and register_engine() throws when it meets one.
HybridAssumption ==
  /\ Signatures \subseteq (SUBSET Nat) \ {{}}
  /\ NodeCount \in [Engines -> Nat] /\ Capacity \in [Engines -> Nat]
  /\ \A e \in Engines : LocalSigma[e] \in [0 .. Capacity[e] - 1 -> (SUBSET Nat) \ {{}}]
  /\ Offsets \subseteq Nat /\ MaxIndex \in Nat
  /\ MaxAddress \in Nat \ {0}
  /\ MaxRecords \in Nat /\ MaxEngines \in Nat /\ MaxOrphans \in Nat

VARIABLES
  accepted, records, used,  \* the stored backend: its hash, records and addresses
  routing,                  \* segments_, stored_physical_addresses_ and next_address_
  engines,                  \* engines_, each with the vertices it has left
  issued,                   \* the addresses callers got, with what they stand for
  orphans,                  \* signatures in the hash whose push or registration threw
  pc, call                  \* where each thread is, and what it pushes

vars == <<accepted, records, used, routing, engines, issued, orphans, pc, call>>
stored == <<accepted, records, used>>

Stored == INSTANCE SignatureStore WITH
  Keys <- Signatures, Addresses <- 1 .. MaxRecords

NoCall == [sigma |-> {}, physical |-> 0]
Gone == {}

Init == /\ Stored!Init
        /\ routing = FreshRouting
        /\ engines = <<>>
        /\ issued = [a \in {} |-> a]
        /\ orphans = {}
        /\ pc = [t \in Threads |-> "idle"]
        /\ call = [t \in Threads |-> NoCall]

Idle == \A t \in Threads : pc[t] = "idle"

\* translate_engine_signature(): own nodes move by the offset.
Translate(e, offset, sigma) ==
  {IF n < NodeCount[e] THEN offset + n ELSE n : n \in sigma}

EngineSigma(i, local, offset) ==
  IF local \in engines[i].active
  THEN Translate(engines[i].kind, offset, LocalSigma[engines[i].kind][local])
  ELSE Gone

\* read(): the signature, empty when the vertex was erased.
Read(a) ==
  LET at == Resolve(routing, a) IN
  CASE at.kind = "stored" -> IF at.physical \in DOMAIN records THEN records[at.physical]
                                                               ELSE Gone
    [] at.kind = "engine" -> EngineSigma(at.engine, at.local, at.offset)
    [] OTHER -> Gone

\* read() and read_facet() leave no trace.
ReadVertex(a) == a \in DOMAIN issued /\ UNCHANGED vars

Issue(a, sigma) == [b \in DOMAIN issued \cup {a} |-> IF b = a THEN sigma ELSE issued[b]]

-----------------------------------------------------------------------------
(* push and push_facet *)

KnownSignature(t, sigma) == pc[t] = "idle" /\ sigma \in accepted /\ UNCHANGED vars

AcceptSignature(t, sigma) ==
  /\ pc[t] = "idle"
  /\ Cardinality(used) + Cardinality({u \in Threads : pc[u] = "record"}) < MaxRecords
  /\ Stored!Accept(sigma)
  /\ pc' = [pc EXCEPT ![t] = "record"]
  /\ call' = [call EXCEPT ![t].sigma = sigma]
  /\ UNCHANGED <<routing, engines, issued, orphans>>

StoreRecord(t) ==
  /\ pc[t] = "record"
  /\ \E a \in 1 .. MaxRecords :
       /\ \A b \in 1 .. MaxRecords : b < a => b \in used
       /\ Stored!Record(call[t].sigma, a)
       /\ call' = [call EXCEPT ![t].physical = a]
  /\ pc' = [pc EXCEPT ![t] = "append"]
  /\ UNCHANGED <<routing, engines, issued, orphans>>

EndPush(t) == pc' = [pc EXCEPT ![t] = "idle"] /\ call' = [call EXCEPT ![t] = NoCall]

AppendStoredRecord(t) ==
  /\ pc[t] = "append"
  /\ routing.next < MaxAddress
  /\ routing' = AppendRecord(routing, call[t].physical)
  /\ issued' = Issue(routing.next, call[t].sigma)
  /\ EndPush(t)
  /\ UNCHANGED <<stored, engines, orphans>>

\* The ways append_stored_record() throws: for want of memory before anything,
\* for want of addresses, or for want of memory when a new segment is due.
AppendThrows(t) ==
  /\ pc[t] = "append"
  /\ \/ UNCHANGED routing
     \/ routing.next = MaxAddress /\ routing' = TakeSlot(routing, call[t].physical)
     \/ /\ routing.next < MaxAddress
        /\ ~ Continues(routing, Len(routing.slots) + 1)
        /\ routing' = LoseRecord(routing, call[t].physical)
  /\ orphans' = orphans \cup {call[t].sigma}
  /\ EndPush(t)
  /\ UNCHANGED <<stored, engines, issued>>

\* The backend's push throws after it accepted the signature.
StoreThrows(t) ==
  /\ pc[t] = "record"
  /\ orphans' = orphans \cup {call[t].sigma}
  /\ EndPush(t)
  /\ UNCHANGED <<stored, routing, engines, issued>>

-----------------------------------------------------------------------------
(* register_engine and erase, between the parallel phases *)

\* What register_engine() refuses before it touches anything.
CanRegister(e, offset) ==
  /\ Idle
  /\ NodeCount[e] <= MaxIndex - offset
  /\ Capacity[e] <= MaxAddress - routing.next

EngineSignatures(e, offset, active) == {Translate(e, offset, LocalSigma[e][l]) : l \in active}

\* active: the vertices that the caller has not deleted from the engine.
RegisterEngine(e, offset, active) ==
  LET sigmas == EngineSignatures(e, offset, active)
      begin  == routing.next
  IN
  /\ CanRegister(e, offset) /\ Len(engines) < MaxEngines
  /\ sigmas \cap accepted = {}
  /\ Cardinality(sigmas) = Cardinality(active)
  /\ accepted' = accepted \cup sigmas
  /\ engines' = Append(engines, [kind |-> e, active |-> active])
  /\ routing' = AppendRange(routing, Capacity[e], Len(engines) + 1, offset)
  /\ issued' = [a \in DOMAIN issued \cup (begin .. begin + Capacity[e] - 1) |->
                  IF a < begin THEN issued[a]
                  ELSE IF a - begin \in active
                       THEN Translate(e, offset, LocalSigma[e][a - begin]) ELSE Gone]
  /\ UNCHANGED <<records, used, orphans, pc, call>>

\* The registration of e comes to its vertex l: all before it were new.
EnteredBefore(e, offset, active, l) == EngineSignatures(e, offset, {k \in active : k < l})
Reaches(e, offset, active, l) ==
  LET before == EnteredBefore(e, offset, active, l) IN
  /\ before \cap accepted = {}
  /\ Cardinality(before) = Cardinality({k \in active : k < l})

\* A conflict that leaves the entered signatures in the hash.
RegisterWithoutRollback(e, offset, active) ==
  /\ CanRegister(e, offset)
  /\ \E l \in active :
       LET before == EnteredBefore(e, offset, active, l) IN
       /\ Reaches(e, offset, active, l)
       /\ Translate(e, offset, LocalSigma[e][l]) \in accepted
       /\ accepted' = accepted \cup before
  /\ UNCHANGED <<records, used, routing, engines, issued, orphans, pc, call>>

\* A signature is known already: those entered before it are taken out again.
RegisterConflicts(e, offset, active) ==
  /\ CanRegister(e, offset)
  /\ \E l \in active :
       LET before == EnteredBefore(e, offset, active, l) IN
       /\ Reaches(e, offset, active, l)
       /\ Translate(e, offset, LocalSigma[e][l]) \in accepted \cup before
       /\ accepted' = (accepted \cup before) \ before
  /\ UNCHANGED <<records, used, routing, engines, issued, orphans, pc, call>>

\* An exception at a new signature.  Thrown before the signature is entered, it leaves
\* nothing behind.  Thrown after that, by the hash that extends its table or by
\* inserted_signatures.push_back(), it leaves this one signature in the hash: the
\* rollback takes out what inserted_signatures holds.
RegisterThrows(e, offset, active) ==
  /\ CanRegister(e, offset)
  /\ \E l \in active :
       LET before == EnteredBefore(e, offset, active, l)
           sigma  == Translate(e, offset, LocalSigma[e][l]) IN
       /\ Reaches(e, offset, active, l)
       /\ sigma \notin accepted \cup before
       /\ \E left \in {{}, {sigma}} :
            /\ left # {} => Cardinality(orphans) < MaxOrphans
            /\ accepted' = (accepted \cup before \cup left) \ before
            /\ orphans' = orphans \cup left
  /\ UNCHANGED <<records, used, routing, engines, issued, pc, call>>

EraseStored(a) ==
  LET at == Resolve(routing, a) IN
  /\ at.kind = "stored"
  /\ Stored!Remove(at.physical)
  /\ issued' = [issued EXCEPT ![a] = Gone]
  /\ UNCHANGED <<routing, engines, orphans, pc, call>>

EraseEngineVertex(a) ==
  LET at == Resolve(routing, a) IN
  /\ at.kind = "engine"
  /\ at.local \in engines[at.engine].active
  /\ accepted' = accepted \ {EngineSigma(at.engine, at.local, at.offset)}
  /\ engines' = [engines EXCEPT ![at.engine].active = @ \ {at.local}]
  /\ issued' = [issued EXCEPT ![a] = Gone]
  /\ UNCHANGED <<records, used, routing, orphans, pc, call>>

\* erase() with the signature that read() returned.
Erase(a) == Idle /\ (EraseStored(a) \/ EraseEngineVertex(a))

-----------------------------------------------------------------------------
Next ==
  \/ \E t \in Threads :
       \/ StoreRecord(t) \/ AppendStoredRecord(t) \/ AppendThrows(t) \/ StoreThrows(t)
       \/ \E sigma \in Signatures : AcceptSignature(t, sigma) \/ KnownSignature(t, sigma)
  \/ \E e \in Engines, offset \in Offsets :
       \E active \in SUBSET (0 .. Capacity[e] - 1) :
         \/ RegisterEngine(e, offset, active)
         \/ RegisterConflicts(e, offset, active) \/ RegisterThrows(e, offset, active)
  \/ \E a \in DOMAIN issued : Erase(a) \/ ReadVertex(a)

Spec == Init /\ [][Next]_vars

-----------------------------------------------------------------------------
(* Properties *)

\* Every address that a caller ever got keeps leading to what it was given for,
\* stored record or engine vertex, until exactly that is erased; no later
\* record, range, deletion or failed call changes it (hybrid_database.hpp
\* 391-480: "stored records, engine-reserved ranges, then later stored records
\* may follow each other arbitrarily").
AddressesAreFaithful == \A a \in DOMAIN issued : Read(a) = issued[a]

Live == {a \in DOMAIN issued : issued[a] # Gone}
InFlight == {call[t].sigma : t \in {u \in Threads : pc[u] # "idle"}}

\* The hash knows exactly the signatures that some address leads to, that a push
\* is about to give one, or at which a push or a registration threw; one address
\* only leads to each, and none to the last kind.  So a registration refused for a
\* conflict leaves no trace and erase() of an engine's vertex always finds its
\* signature (hybrid_database.hpp 237-251, 329-334).  Want of memory is the
\* exception: the signature at which it struck stays in the hash for good, since
\* erase() needs an address.  Every later push of it reads as known, and every later
\* registration with it, a retry of the failed one too, is refused.
HashIsExact ==
  /\ accepted = {issued[a] : a \in Live} \cup InFlight \cup orphans
  /\ \A a, b \in Live : issued[a] = issued[b] => a = b
  /\ \A a \in Live : issued[a] \notin orphans
=============================================================================
