------------------------------- MODULE MCSndPlayer -------------------------------
\* Two sounds at a time, with a voice for one of them: one part, looped, or two.
EXTENDS SndPlayer

const_Once == [looped |-> FALSE, delay |-> 0]
const_Loop == [looped |-> TRUE, delay |-> 0]
const_Sounds == {<<const_Once>>, <<const_Loop, const_Once>>}
===============================================================================
