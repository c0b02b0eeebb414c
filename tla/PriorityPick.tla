---------------------------- MODULE PriorityPick ----------------------------
(***************************************************************************)
(* The weighted choice of PriorityQueueReceiver::pop_inner and             *)
(* spin_try_pop (crates/gpui/src/queue.rs): a loaded die thrown as a       *)
(* sequence of biased coins, one for each queue that is not empty, from    *)
(* High to Low.  queues maps each priority to a sequence of items.         *)
(***************************************************************************)
EXTENDS Naturals, Sequences

Priorities == {"High", "Medium", "Low"}

\* Priority::weight.
Weight == [p \in Priorities |-> CASE p = "High" -> 60 [] p = "Medium" -> 30 [] p = "Low" -> 10]

\* The priorities whose coin is thrown before that of p.
Before(p) == CASE p = "High" -> {} [] p = "Medium" -> {"High"} [] p = "Low" -> {"High", "Medium"}

IsEmpty(queues) == \A p \in Priorities : queues[p] = <<>>

\* What p adds to the mass.
Share(queues, p) == IF queues[p] # <<>> THEN Weight[p] ELSE 0

\* mass, before any coin is thrown.
Mass(queues) == Share(queues, "High") + Share(queues, "Medium") + Share(queues, "Low")

\* mass when the coin of p is thrown: passed queues were subtracted.
MassAt(queues, p) ==
    Mass(queues) - (CASE p = "High" -> 0
                      [] p = "Medium" -> Share(queues, "High")
                      [] p = "Low" -> Share(queues, "High") + Share(queues, "Medium"))

\* random_ratio(weight, mass) is certain when they are equal.
MayPass(queues, p) == queues[p] # <<>> => Weight[p] < MassAt(queues, p)

\* The priorities pop_inner can take from.
Pickable(queues) ==
    {p \in Priorities : queues[p] # <<>> /\ \A b \in Before(p) : MayPass(queues, b)}

\* pop_inner can reach its final Ok(None), which pop would unwrap.
MayFindNothing(queues) == \A p \in Priorities : MayPass(queues, p)

\* random_ratio panics when the weight exceeds the mass.
RatioInRange(queues) ==
    \A p \in Priorities : queues[p] # <<>> => Weight[p] <= MassAt(queues, p)

=============================================================================
