----------------------------- MODULE LjcaEvents -----------------------------
(***************************************************************************)
(* The event fan-out of one LJCA stub (drivers/mfd/ljca.c):                *)
(* ljca_register_event_cb and ljca_unregister_event_cb, called by child    *)
(* drivers on their own threads, and ljca_stub_notify, called from the     *)
(* bulk-in URB completion for every frame without the ACK flag.  All list  *)
(* accesses hold stub->event_cb_lock; notify holds it across the whole     *)
(* walk, calling each callback in turn.                                    *)
(***************************************************************************)
EXTENDS Naturals, Sequences, SequencesExt

CONSTANTS
  Ids,      \* ljca->id of the children that use this stub
  Free      \* event_cb_lock is not held

VARIABLES
  entries,  \* stub->event_entrys: the list, in order, of registered entries
  lock,     \* holder of stub->event_cb_lock: "notify" or Free
  toCall,   \* entries ljca_stub_notify has still to visit in its walk
  cpc,      \* where each child is in ljca_register_event_cb
  lastRet   \* what each child's last registration returned (history)

vars == <<entries, lock, toCall, cpc, lastRet>>

(* An entry is the child's id and whether its notify pointer is non-NULL. *)
Entry == [id : Ids, notify : BOOLEAN]

(* The ids on the list.                                                    *)
IdsOf(s) == {s[k].id : k \in DOMAIN s}

(* Outcomes of the scan at lines 485-490.  A matching entry sets ret to    *)
(* -EBUSY.  Without one, ret is never assigned (line 469): the compiler    *)
(* may leave any value there, zero or not, so both are possible.           *)
ScanRet(i) == IF i \in IdsOf(entries) THEN {"busy"} ELSE {"ok", "garbage"}

-----------------------------------------------------------------------------
(* Lines 471-481: find the stub, kzalloc the entry and fill it in outside  *)
(* the lock.  An allocation failure returns -ENOMEM with nothing changed. *)
RegisterAlloc(i) ==
  /\ cpc[i] = "idle"
  /\ \/ /\ cpc' = [cpc EXCEPT ![i] = "alloc"]
        /\ UNCHANGED lastRet
     \/ /\ lastRet' = [lastRet EXCEPT ![i] = "nomem"]
        /\ UNCHANGED cpc
  /\ UNCHANGED <<entries, lock, toCall>>

(* Mutant of RegisterLocked: the duplicate scan dropped.                   *)
RegisterNoDupCheck(i, cb) ==
  /\ cpc[i] = "alloc"
  /\ lock = Free
  /\ entries' = Append(entries, [id |-> i, notify |-> cb])
  /\ lastRet' = [lastRet EXCEPT ![i] = "ok"]
  /\ cpc' = [cpc EXCEPT ![i] = "idle"]
  /\ UNCHANGED <<lock, toCall>>

(* Mutant of RegisterLocked: entry->id never set, left at kzalloc's zero,  *)
(* which is not the id of this child.                                      *)
RegisterNoId(i, cb) ==
  /\ cpc[i] = "alloc"
  /\ lock = Free
  /\ \E r \in ScanRet(i) :
       /\ entries' = IF r = "ok"
                       THEN Append(entries, [id |-> 0, notify |-> cb])
                       ELSE entries
       /\ lastRet' = [lastRet EXCEPT ![i] = r]
  /\ cpc' = [cpc EXCEPT ![i] = "idle"]
  /\ UNCHANGED <<lock, toCall>>

(* Lines 483-499: under event_cb_lock, scan for the id and append the      *)
(* entry (list_add_tail) only when ret is zero; otherwise free it.  The    *)
(* callback pointer cb is the child's argument, which may be NULL.         *)
RegisterLocked(i, cb) ==
  /\ cpc[i] = "alloc"
  /\ lock = Free
  /\ \E r \in ScanRet(i) :
       /\ entries' = IF r = "ok"
                       THEN Append(entries, [id |-> i, notify |-> cb])
                       ELSE entries
       /\ lastRet' = [lastRet EXCEPT ![i] = r]
  /\ cpc' = [cpc EXCEPT ![i] = "idle"]
  /\ UNCHANGED <<lock, toCall>>

(* Mutant of Unregister: the entry removed without taking event_cb_lock.   *)
UnregisterNoLock(i) ==
  /\ cpc[i] = "idle"
  /\ entries' = IF i \in IdsOf(entries)
                  THEN RemoveAt(entries,
                                SelectInSeq(entries, LAMBDA e : e.id = i))
                  ELSE entries
  /\ UNCHANGED <<lock, toCall, cpc, lastRet>>

(* Lines 504-525: under event_cb_lock, remove and free the first entry     *)
(* with the id, if any.                                                    *)
Unregister(i) ==
  /\ cpc[i] = "idle"
  /\ lock = Free
  /\ entries' = IF i \in IdsOf(entries)
                  THEN RemoveAt(entries,
                                SelectInSeq(entries, LAMBDA e : e.id = i))
                  ELSE entries
  /\ UNCHANGED <<lock, toCall, cpc, lastRet>>

-----------------------------------------------------------------------------
(* ljca_stub_notify, in the URB completion.                                *)

(* Line 311: take event_cb_lock and start the walk.                        *)
NotifyBegin ==
  /\ lock = Free
  /\ lock' = "notify"
  /\ toCall' = entries
  /\ UNCHANGED <<entries, cpc, lastRet>>

(* Lines 312-315: visit the next entry and call its notify if non-NULL.    *)
NotifyCall ==
  /\ lock = "notify"
  /\ toCall # <<>>
  /\ toCall' = Tail(toCall)
  /\ UNCHANGED <<entries, lock, cpc, lastRet>>

(* Line 316: the walk is over; drop the lock.                              *)
NotifyEnd ==
  /\ lock = "notify"
  /\ toCall = <<>>
  /\ lock' = Free
  /\ UNCHANGED <<entries, toCall, cpc, lastRet>>

-----------------------------------------------------------------------------
(* The stub was kzalloc'ed with an empty list (ljca_stub_alloc).           *)
Init ==
  /\ entries = <<>>
  /\ lock = Free
  /\ toCall = <<>>
  /\ cpc = [i \in Ids |-> "idle"]
  /\ lastRet = [i \in Ids |-> "none"]

(* Children call the interface in any order, including twice in a row.    *)
Next ==
  \/ \E i \in Ids :
       \/ RegisterAlloc(i)
       \/ \E cb \in BOOLEAN : RegisterLocked(i, cb)
       \/ Unregister(i)
  \/ NotifyBegin \/ NotifyCall \/ NotifyEnd

Spec == Init /\ [][Next]_vars

-----------------------------------------------------------------------------
(* The type invariant: every entry on the list carries a child's id.       *)
TypeOK ==
  /\ entries \in Seq(Entry)
  /\ lock \in {"notify", Free}
  /\ toCall \in Seq(Entry)
  /\ cpc \in [Ids -> {"idle", "alloc"}]
  /\ lastRet \in [Ids -> {"none", "nomem", "ok", "busy", "garbage"}]

(* At most one entry per id (spec 3: a duplicate registration fails        *)
(* without disturbing the existing entry).  ljca_unregister_event_cb      *)
(* removes only the first match, so a duplicate would outlive its          *)
(* unregistration and be called with a freed context.                      *)
UniqueIds ==
  \A j, k \in DOMAIN entries : j # k => entries[j].id # entries[k].id

(* The walk in ljca_stub_notify only calls entries that are still on the  *)
(* list: unregistration waits for the walk to end, so once                *)
(* ljca_unregister_event_cb returns, the child's callback is not called    *)
(* and its context may be freed.                                           *)
CallbackOnlyWhileRegistered ==
  \A k \in DOMAIN toCall : toCall[k].notify => toCall[k].id \in IdsOf(entries)

=============================================================================
