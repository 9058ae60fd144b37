-------------------------- MODULE ResourceLifetime --------------------------
(***************************************************************************)
(* What the hook lifecycle promises to the game: native resources that     *)
(* game threads may be running through are held from before the first      *)
(* route to them opens until after the last user has left and every route  *)
(* is closed, and are given back in the order they depend on each other    *)
(* (an unwind table describes code in the allocation).                     *)
(*                                                                         *)
(* The abstraction of src/src/hook_lifecycle.cpp: nothing of phases,       *)
(* results, retries or failures is visible here.                           *)
(***************************************************************************)
CONSTANTS Threads, Resources

VARIABLES
    held,   \* the resources that exist
    route,  \* some instruction fetch may lead into them
    users   \* the threads that are inside, or will return there

vars == <<held, route, users>>

TypeOK == /\ held \subseteq Resources
          /\ route \in BOOLEAN
          /\ users \subseteq Threads

Idle == ~route /\ users = {}

Init == held = {} /\ route = FALSE /\ users = {}

(* All of the resources, or those a failed preparation leaves behind.      *)
Acquire == /\ Idle /\ held = {}
           /\ held' \in SUBSET Resources
           /\ UNCHANGED <<route, users>>

Open == /\ Idle /\ held = Resources
        /\ route' = TRUE
        /\ UNCHANGED <<held, users>>

Enter(t) == /\ route /\ t \notin users
            /\ users' = users \cup {t}
            /\ UNCHANGED <<held, route>>

Leave(t) == /\ t \in users
            /\ users' = users \ {t}
            /\ UNCHANGED <<held, route>>

(* Only when nobody is inside: a closed route and a user never coexist.    *)
Close == /\ route /\ users = {}
         /\ route' = FALSE
         /\ UNCHANGED <<held, users>>

Release(r) == /\ Idle /\ r \in held
              /\ r = "allocation" => "unwind" \notin held
              /\ held' = held \ {r}
              /\ UNCHANGED <<route, users>>

Next == \/ Acquire \/ Open \/ Close
        \/ \E t \in Threads : Enter(t) \/ Leave(t)
        \/ \E r \in Resources : Release(r)

Spec == Init /\ [][Next]_vars
=============================================================================
