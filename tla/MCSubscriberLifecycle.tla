------------------------- MODULE MCSubscriberLifecycle -------------------------
EXTENDS SubscriberLifecycle
================================================================================
