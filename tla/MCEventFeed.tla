---------------------------- MODULE MCEventFeed -----------------------------
EXTENDS EventFeed
MCFilters == {EventTypes, {"output"}}
=============================================================================
