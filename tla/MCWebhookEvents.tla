--------------------------- MODULE MCWebhookEvents ---------------------------
EXTENDS WebhookEvents
==============================================================================
