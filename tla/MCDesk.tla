-------------------------------- MODULE MCDesk --------------------------------
EXTENDS Desk

\* Either machines register one try at a time or not; either AgentsCenter has a
\* machine of the same number or not.
AllModes == [apart: BOOLEAN, mixed: BOOLEAN]

\* Every half hour, and the minutes around the edges of hours, of the default
\* window, of a quarter before it and of midnight.
ClocksOfADay ==
  [min: {30 * i : i \in 0 .. 47} \cup
        {1, 59, 61, 464, 465, 479, 481, 1184, 1185, 1199, 1379, 1381, 1425, 1439},
   exact: BOOLEAN]

\* Windows that begin or end on and off the hour, that cross midnight, are empty
\* or no times.
SomeWindows == {-1, 0, 30, 800, 830, 875, 2000, 2030, 2330, 2400} \X {-1, 0, 800, 830, 2000, 2359}

\* Prices and times that are missing, alike or different, and times written in
\* two parts.
SomeItems ==
  [code: {"1", "2", "113"}, fee: {0, 10, 20},
   times: {<<-1>>, <<0>>, <<1>>, <<2>>, <<1, 2>>, <<2, -1>>}]
=============================================================================
