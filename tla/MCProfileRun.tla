------------------------------ MODULE MCProfileRun -----------------------------
EXTENDS ProfileRun

\* A profile plan in small: set_bio, set_username, set_profile_photo.
ProfilePlan == <<"plain", "username", "plain">>

\* An account update with a story and a pinned channel.
UpdatePlan == <<"plain", "story", "pinned">>
================================================================================
