-------------------------------- MODULE MCRooms --------------------------------
\* Three rooms, whose blocks fill the table and do not all fit the heap.
EXTENDS Rooms

const_Need == <<1, 2, 1>>
const_Bounds == <<1, 1, 1>>
===============================================================================
