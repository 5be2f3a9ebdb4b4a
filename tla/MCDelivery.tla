------------------------------ MODULE MCDelivery ------------------------------
EXTENDS Delivery

CONSTANTS m1, m2, j1, j2

MCMail == {m1, m2}
MCJob == {j1, j2}

Plain == [mode |-> "times", interval |-> 0, times |-> 2, from |-> 1, to |-> 4,
          custom |-> {}, dndFrom |-> 0, dndTo |-> 0]

\* Two slots in a row; an interval with a night; slots that never open.
MCSchedules ==
    {[Plain EXCEPT !.mode = "custom_daily", !.custom = {2, 3}, !.dndFrom = 3, !.dndTo = 4],
     [Plain EXCEPT !.mode = "interval", !.interval = 3, !.dndFrom = 3, !.dndTo = 1],
     [Plain EXCEPT !.times = 3, !.dndFrom = 2, !.dndTo = 0]}

MCScenarios == {{}, {"slow"}, {"late", "gmail"}, {"crash", "late"}}
=============================================================================
