--------------------------- MODULE MCRoomBookings ---------------------------
(* Two requests, an open and a closed room, a day of three slots, and as    *)
(* many access codes as bookings.                                           *)
EXTENDS RoomBookings
=============================================================================
