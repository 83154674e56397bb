---------------------------- MODULE WasmSandbox -----------------------------
(***************************************************************************)
(* The migration sandbox (migration/wasm_sandbox.rs).                      *)
(*                                                                         *)
(* Native build: every run has its own wasmtime engine.  The guest traps   *)
(* at an epoch check (function entry, loop back-edge) once the engine's    *)
(* epoch reached the store's deadline.  The epoch is incremented by the    *)
(* timeout thread and by a revocation that finds the run in the execution  *)
(* registry; it looks the engine up under the registry's lock and          *)
(* increments the epoch after it let go of it.  Rows the guest writes go   *)
(* straight to the local store.                                            *)
(*                                                                         *)
(* Browser build: one call, no interleaving: fuel instead of epochs, and   *)
(* the store handle is moved into the sandbox and back.                    *)
(***************************************************************************)
EXTENDS Naturals, FiniteSets

CONSTANTS Runs,      \* migration ids with a run each
          Rows,      \* rows a transform rewrites, one per loop iteration
          Fuel       \* loop iterations the browser build's fuel pays for

VARIABLES transform,   \* what each run's module is: one of Modules
          phase,       \* where execute_native is in each run
          epoch, deadline,
          registry,    \* MigrationExecutionRegistry: ids with an engine
          timer,       \* the timeout threads sleeping
          revoker,     \* interrupt(id) calls that hold a cloned engine
          interrupted, \* runs whose epoch an interrupt incremented
          missed,      \* history: where a run was when its interrupt did not find it
          late,        \* rows written since
          written,     \* rows each run has written
          result,
          handle, kept \* the caller's InMemoryStoreHandle, and what it should hold

vars == <<transform, phase, epoch, deadline, registry, timer, revoker, interrupted, missed,
          late, written, result, handle, kept>>

Modules == {"invalid",   \* Module::new refuses it
            "foreign",   \* imports something that is not linked
            "no_run",    \* exports no "run"
            "rewrites"}  \* loops over the rows, may also spin or trap

Ended == {"Success", "TimedOut", "Aborted"}

Init ==
    /\ transform \in [Runs -> Modules]
    /\ phase = [r \in Runs |-> "idle"]
    /\ epoch = [r \in Runs |-> 0] /\ deadline = [r \in Runs |-> 0]
    /\ registry = {} /\ timer = {} /\ revoker = {} /\ interrupted = {}
    /\ missed = [r \in Runs |-> "never"]
    /\ late = [r \in Runs |-> 0]
    /\ written = [r \in Runs |-> {}]
    /\ result = [r \in Runs |-> "none"]
    /\ handle = {} /\ kept = {}

\* Every exit of execute_native: the RegistryGuard, if there is one, removes
\* the run from the registry.
Exit(r, outcome) ==
    /\ phase' = [phase EXCEPT ![r] = "ended"]
    /\ result' = [result EXCEPT ![r] = outcome]
    /\ registry' = registry \ {r}

\* Engine::new, Module::new.
ParseModule(r) ==
    /\ phase[r] = "idle"
    /\ IF transform[r] = "invalid"
       THEN Exit(r, "Aborted")
       ELSE phase' = [phase EXCEPT ![r] = "parsed"] /\ UNCHANGED <<result, registry>>
    /\ UNCHANGED <<transform, epoch, deadline, timer, revoker, interrupted, missed, late, written, handle, kept>>

\* Mutant: the engine is registered before its deadline is set.
Preparation_registers_first == [parsed |-> "register", armed |-> "arm"]

\* The two steps before the transform may run, in this order: a deadline set
\* after an increment slides past it.
Preparation == [parsed |-> "arm", armed |-> "register"]

\* set_epoch_deadline(1), relative to the engine's epoch now.
set_epoch_deadline(r) ==
    /\ phase[r] \in DOMAIN Preparation /\ Preparation[phase[r]] = "arm"
    /\ deadline' = [deadline EXCEPT ![r] = epoch[r] + 1]
    /\ phase' = [phase EXCEPT ![r] = IF @ = "parsed" THEN "armed" ELSE "ready"]
    /\ UNCHANGED <<transform, epoch, registry, timer, revoker, interrupted, missed, late, written, result, handle, kept>>

\* Mutant: the guard is bound to `_`, which drops it at once.
register_guard_dropped(r) ==
    /\ phase[r] \in DOMAIN Preparation /\ Preparation[phase[r]] = "register"
    /\ phase' = [phase EXCEPT ![r] = IF @ = "parsed" THEN "armed" ELSE "ready"]
    /\ UNCHANGED <<transform, epoch, deadline, registry, timer, revoker, interrupted, missed, late, written, result, handle, kept>>

\* MigrationExecutionRegistry::register, the guard from here on.
register(r) ==
    /\ phase[r] \in DOMAIN Preparation /\ Preparation[phase[r]] = "register"
    /\ registry' = registry \cup {r}
    /\ phase' = [phase EXCEPT ![r] = IF @ = "parsed" THEN "armed" ELSE "ready"]
    /\ UNCHANGED <<transform, epoch, deadline, timer, revoker, interrupted, missed, late, written, result, handle, kept>>

\* The timeout threads sleeping once this run is instantiated.
Timers(r) == timer \cup {r}

\* Spawn the timeout thread, instantiate, look for "run" and call it.
InstantiateAndCall(r) ==
    /\ phase[r] = "ready"
    /\ timer' = Timers(r)
    /\ CASE transform[r] = "foreign" -> Exit(r, "Aborted")
         [] transform[r] = "no_run" -> Exit(r, "Success")
         [] OTHER -> phase' = [phase EXCEPT ![r] = "check"] /\ UNCHANGED <<result, registry>>
    /\ UNCHANGED <<transform, epoch, deadline, revoker, interrupted, missed, late, written, handle, kept>>

\* A guest's epoch check: Trap::Interrupt becomes TimedOut.
EpochCheck(r) ==
    /\ phase[r] = "check"
    /\ IF epoch[r] >= deadline[r]
       THEN Exit(r, "TimedOut")
       ELSE phase' = [phase EXCEPT ![r] = "body"] /\ UNCHANGED <<result, registry>>
    /\ UNCHANGED <<transform, epoch, deadline, timer, revoker, interrupted, missed, late, written, handle, kept>>

\* One iteration of the guest's loop: host.read_row and host.write_row of the
\* next row, straight into the LocalStore.
RewriteRow(r) ==
    /\ phase[r] = "body" /\ written[r] # Rows
    /\ \E k \in Rows \ written[r] : written' = [written EXCEPT ![r] = @ \cup {k}]
    /\ late' = [late EXCEPT ![r] = IF r \in interrupted THEN @ + 1 ELSE @]
    /\ phase' = [phase EXCEPT ![r] = "check"]
    /\ UNCHANGED <<transform, epoch, deadline, registry, timer, revoker, interrupted, missed, result, handle, kept>>

\* An iteration that writes nothing: the transform may loop for ever.
Spin(r) ==
    /\ phase[r] = "body" /\ phase' = [phase EXCEPT ![r] = "check"]
    /\ UNCHANGED <<transform, epoch, deadline, registry, timer, revoker, interrupted, missed, late, written, result, handle, kept>>

\* "run" returns, or traps for a reason of its own.
Return(r) ==
    /\ phase[r] = "body"
    /\ \E outcome \in {"Success", "Aborted"} : Exit(r, outcome)
    /\ UNCHANGED <<transform, epoch, deadline, timer, revoker, interrupted, missed, late, written, handle, kept>>

\* The timeout thread wakes up; the run may be over by then.
TimeoutThread(r) ==
    /\ r \in timer /\ timer' = timer \ {r}
    /\ epoch' = [epoch EXCEPT ![r] = @ + 1]
    /\ UNCHANGED <<transform, phase, deadline, registry, revoker, interrupted, missed, late, written, result, handle, kept>>

\* interrupt(id), called once, when a revocation found the migration in
\* progress: the engine is looked up and cloned under the lock, or is not there
\* and the call returns false ...
interrupt_lookup(r) ==
    /\ r \notin revoker \cup interrupted /\ missed[r] = "never"
    /\ \/ r \in registry /\ revoker' = revoker \cup {r} /\ missed' = missed
       \/ r \notin registry /\ missed' = [missed EXCEPT ![r] = phase[r]] /\ revoker' = revoker
    /\ UNCHANGED <<transform, phase, epoch, deadline, registry, timer, interrupted, late, written, result, handle, kept>>

\* ... and its epoch incremented outside it; the call returns true.
interrupt_increment(r) ==
    /\ r \in revoker /\ revoker' = revoker \ {r}
    /\ epoch' = [epoch EXCEPT ![r] = @ + 1]
    /\ interrupted' = interrupted \cup {r}
    /\ UNCHANGED <<transform, phase, deadline, registry, timer, missed, late, written, result, handle, kept>>

\* Mutant: the engine does not meter fuel.
consume_fuel_off == FALSE

\* Config::consume_fuel(true): set_fuel fails on an engine without it.
consume_fuel == TRUE

\* What a browser run leaves in the caller's handle: `rows` were written when
\* it ended, whatever ended it.  A module that does not parse or that imports
\* from elsewhere is refused before the handle is moved; a set_fuel that fails
\* returns after that, and drops it.
HandleAfter(module, rows) ==
    CASE module \in {"invalid", "foreign"} -> handle
      [] module \in {"no_run", "rewrites"} /\ ~consume_fuel -> {}
      [] module \in {"no_run", "rewrites"} /\ consume_fuel -> handle \cup rows

\* execute_migration_wasm on a caller's handle: each iteration burns fuel, so
\* at most Fuel rows are written.
execute_migration_wasm ==
    /\ \A r \in Runs : phase[r] = "idle"
    /\ \E module \in Modules, rows \in {S \in SUBSET Rows : Cardinality(S) <= Fuel} :
        /\ module = "rewrites" \/ rows = {}
        /\ handle' = HandleAfter(module, rows)
        /\ kept' = kept \cup rows
    /\ UNCHANGED <<transform, phase, epoch, deadline, registry, timer, revoker, interrupted, missed, late, written, result>>

execute_native(r) ==
    \/ ParseModule(r) \/ set_epoch_deadline(r) \/ register(r) \/ InstantiateAndCall(r)
    \/ EpochCheck(r) \/ RewriteRow(r) \/ Spin(r) \/ Return(r)

Next ==
    \/ \E r \in Runs :
        \/ ParseModule(r) \/ set_epoch_deadline(r) \/ register(r) \/ InstantiateAndCall(r)
        \/ EpochCheck(r) \/ RewriteRow(r) \/ Spin(r) \/ Return(r)
        \/ TimeoutThread(r) \/ interrupt_lookup(r) \/ interrupt_increment(r)
    \/ execute_migration_wasm

-----------------------------------------------------------------------------
TypeOK ==
    /\ phase \in [Runs -> {"idle", "parsed", "armed", "ready", "check", "body", "ended"}]
    /\ registry \subseteq Runs /\ timer \subseteq Runs /\ revoker \subseteq Runs /\ interrupted \subseteq Runs
    /\ \A r \in Runs : epoch[r] \in 0..2 /\ deadline[r] \in 0..3 /\ written[r] \subseteq Rows
    /\ result \in [Runs -> Ended \cup {"none"}]
    /\ DOMAIN missed = Runs

\* Req 18.6: a revocation that found a run stops it at the guest's next epoch
\* check: however the interrupt interleaves with parsing, arming, registering
\* and the timeout, at most the iteration under way still writes its row.
InterruptIsNotForgiven == \A r \in Runs : late[r] <= 1

\* Req 18.6: an interrupt that finds no run came before the run could write or
\* after it was over, never in between.  Before means that it is not stopped: it
\* writes its rows, and the commit that follows is refused.
MissedAtAnEdge == \A r \in Runs : missed[r] \in {"never", "idle", "parsed", "armed", "ended"}

\* Req 18.4: every run that began ends, even if its transform loops for ever.
RunsEnd == []<>(\A r \in Runs : phase[r] \in {"idle", "ended"})

\* The browser build gives the caller's handle back with every row it held
\* and every row the transform wrote, whatever way the run ended: the one return
\* that drops it needs an engine without fuel.
HandleComesBack == handle = kept

\* Neither a run that writes escapes the revoker's lookup, nor a row the
\* caller's handle (wasm_sandbox.rs interrupt, execute_migration_wasm).
NothingEscapes == MissedAtAnEdge /\ HandleComesBack
=============================================================================
