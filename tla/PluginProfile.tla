---------------------------- MODULE PluginProfile ----------------------------
(* What the plugin dialogs promise about the web profile: a dialog enables or  *)
(* disables one bundle at a time and changes nothing else. The rest is done by *)
(* runs of dsh plugin, and a run works on the profile as it has read it.       *)
CONSTANT Run

VARIABLES profile,   \* [installed, enabled, other]; other: the rest of the file, to
                     \* six digits of a number that is not whole
          read       \* the profile that each run of dsh plugin works on, if any

Init == read = [r \in Run |-> {}]

Switched(p, name, on) == [p EXCEPT !.enabled = IF on THEN @ \cup {name} ELSE @ \ {name}]
Added(p, name)   == [p EXCEPT !.installed = @ \cup {name}]
Removed(p, name) == [p EXCEPT !.installed = @ \ {name}, !.enabled = @ \ {name}]

\* What a dialog may make of the profile, and a run of what it has read
Switches(p, q) == \E name \in p.enabled \cup q.enabled, on \in BOOLEAN : q = Switched(p, name, on)
Runs(p, q) == \/ \E name \in q.installed : q \in {Added(p, name), Switched(Added(p, name), name, TRUE)}
              \/ \E name \in p.installed : q = Removed(p, name)

Reads(r) == read[r] = {} /\ read' = [read EXCEPT ![r] = {profile}]
Ends(r)  == read[r] # {} /\ read' = [read EXCEPT ![r] = {}]

Next == \/ Switches(profile, profile') /\ UNCHANGED read
        \/ \E r \in Run : Reads(r) /\ UNCHANGED profile
        \/ \E r \in Run : Ends(r) /\ \/ \E p \in read[r] : Runs(p, profile')
                                     \/ UNCHANGED profile

Spec == Init /\ [][Next]_<<profile, read>>
=============================================================================
