-------------------------------- MODULE MCFront --------------------------------
\* One folder, with two main missions and the two bonus ones in two rows of the
\* mission menu.  There are demos whose page is right, none and a wrong one.
EXTENDS Front, TLC

const_DemoPage == (0 :> 0) @@ (2 :> NoPage) @@ (3 :> 1)
===============================================================================
