----------------------------- MODULE MCRestream -----------------------------
(* Small instances of Restream.                                              *)
EXTENDS Restream

CONSTANTS phone, laptop, tablet, qsv, vaapi

\* A phone on HLS, and browsers on MP4, all re-encoding.
Both == {phone, laptop}
All == {phone, laptop, tablet}
PhoneOnly == {phone}
OneEncoder == <<qsv>>
TwoEncoders == <<qsv, vaapi>>
=============================================================================
