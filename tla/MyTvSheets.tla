----------------------------- MODULE MyTvSheets -----------------------------
(* The sheets of My TV: those of a series kept on the Pi and those of a film. *)
(* The owner has one of them on screen.                                       *)
EXTENDS LocalSeries, FilmSheets

(* LocalSeries and FilmSheets: however closing sheets, late answers, lost     *)
(* requests and reloads of the library cross, the sheets act on what they     *)
(* were opened for, and the page settles on what the Pi has (my-tv-series.js, *)
(* film-library.js, programmes.js).                                           *)
SheetsAreTrue == SeriesSheetsAreTrue /\ ShelfIsTrue
=============================================================================
